---- MODULE Spec2Model ----
(***************************************************************************)
(* Model of the MicroASM language server's static analysis core:           *)
(*   - isValidMemoryAddress      (server/src/completion.ts)                *)
(*   - parseDocumentRecursive    (server/src/completion.ts)                *)
(*   - validateTextDocument      (server/src/validation.ts)                *)
(* Strings are TLA+ strings; positions follow JavaScript (0-based) unless  *)
(* an operator says otherwise.  A document's text is kept as the sequence  *)
(* of its lines (the result of text.split(/\r?\n/g)).                      *)
(***************************************************************************)
EXTENDS Integers, Sequences, FiniteSets, TLC

VARIABLES
    address,        \* the argument of the isValidMemoryAddress call under study
    valid,          \* its return value (FALSE until it returns)
    addrPc,         \* "ready" before that call, "returned" after it
    documents,      \* open documents: uri -> lines
    files,          \* files on disk: path -> lines
    settings,       \* [maxNumberOfProblems, includePath]
    toolchainIncludePath, \* includePath of the toolchain descriptor, "" if none
    parsedDocCache, \* uri -> ParsedDocInfo, for the cached uris
    pass,           \* the state of the running validateTextDocument call
    closest,        \* the findClosestMatch call under study: its arguments,
                    \* and its return value once pc = "returned"
    pending,        \* the uris of the validateTextDocument calls that a
                    \* notification started and that await their settings
    completion      \* the provideCompletion call under study: its request,
                    \* and the items it returned once pc = "returned"

vars == <<address, valid, addrPc, documents, files, settings, toolchainIncludePath,
          parsedDocCache, pass, closest, pending, completion>>

(***************************************************************************)
(* String helpers (JavaScript String methods used by the source).          *)
(***************************************************************************)
Whitespace == {" ", "\t"}
Digits == {"0", "1", "2", "3", "4", "5", "6", "7", "8", "9"}

Max(a, b) == IF a >= b THEN a ELSE b
Min(a, b) == IF a <= b THEN a ELSE b

\* s.charAt(i - 1): the i-th character (1-based)
Chr(s, i) == SubSeq(s, i, i)

\* s.substring(a, b), 0-based, negative or too large indexes clamped
Substring(s, a, b) ==
    LET lo == Min(Max(0, Min(a, b)), Len(s))
        hi == Min(Max(0, Max(a, b)), Len(s))
    IN SubSeq(s, lo + 1, hi)

\* s.substring(a)
SubstringFrom(s, a) == Substring(s, a, Len(s))

StartsWith(s, p) == Len(p) <= Len(s) /\ SubSeq(s, 1, Len(p)) = p
EndsWith(s, p) == Len(p) <= Len(s) /\ SubSeq(s, Len(s) - Len(p) + 1, Len(s)) = p

\* s.indexOf(sub, from): 0-based position of the first occurrence at or
\* after from, -1 when there is none
RECURSIVE IndexOfFrom(_, _, _)
IndexOfFrom(s, sub, from) ==
    IF from + Len(sub) > Len(s) THEN -1
    ELSE IF SubSeq(s, from + 1, from + Len(sub)) = sub THEN from
    ELSE IndexOfFrom(s, sub, from + 1)

IndexOf(s, sub) == IndexOfFrom(s, sub, 0)

RECURSIVE TrimStart(_)
TrimStart(s) ==
    IF Len(s) > 0 /\ Chr(s, 1) \in Whitespace
    THEN TrimStart(SubSeq(s, 2, Len(s)))
    ELSE s

RECURSIVE TrimEnd(_)
TrimEnd(s) ==
    IF Len(s) > 0 /\ Chr(s, Len(s)) \in Whitespace
    THEN TrimEnd(SubSeq(s, 1, Len(s) - 1))
    ELSE s

Trim(s) == TrimEnd(TrimStart(s))

\* the upper-case form of each lower-case letter, and the converse
UpperOf ==
    [a |-> "A", b |-> "B", c |-> "C", d |-> "D", e |-> "E", f |-> "F", g |->
    "G", h |-> "H", i |-> "I", j |-> "J", k |-> "K", l |-> "L", m |-> "M", n
    |-> "N", o |-> "O", p |-> "P", q |-> "Q", r |-> "R", s |-> "S", t |-> "T",
    u |-> "U", v |-> "V", w |-> "W", x |-> "X", y |-> "Y", z |-> "Z"]

LowerOf ==
    [A |-> "a", B |-> "b", C |-> "c", D |-> "d", E |-> "e", F |-> "f", G |->
    "g", H |-> "h", I |-> "i", J |-> "j", K |-> "k", L |-> "l", M |-> "m", N
    |-> "n", O |-> "o", P |-> "p", Q |-> "q", R |-> "r", S |-> "s", T |-> "t",
    U |-> "u", V |-> "v", W |-> "w", X |-> "x", Y |-> "y", Z |-> "z"]

UpperChar(c) == IF c \in DOMAIN UpperOf THEN UpperOf[c] ELSE c

LowerChar(c) == IF c \in DOMAIN LowerOf THEN LowerOf[c] ELSE c

RECURSIVE ToUpperCase(_)
ToUpperCase(s) ==
    IF Len(s) = 0 THEN ""
    ELSE UpperChar(Chr(s, 1)) \o ToUpperCase(SubSeq(s, 2, Len(s)))

RECURSIVE ToLowerCase(_)
ToLowerCase(s) ==
    IF Len(s) = 0 THEN ""
    ELSE LowerChar(Chr(s, 1)) \o ToLowerCase(SubSeq(s, 2, Len(s)))

\* s.split(/\s+/).filter(token => token.length > 0); cur is the token being
\* collected
RECURSIVE SplitWhitespaceFrom(_, _, _)
SplitWhitespaceFrom(s, i, cur) ==
    IF i > Len(s) THEN (IF cur = "" THEN <<>> ELSE <<cur>>)
    ELSE IF Chr(s, i) \in Whitespace
         THEN (IF cur = "" THEN <<>> ELSE <<cur>>) \o SplitWhitespaceFrom(s, i + 1, "")
         ELSE SplitWhitespaceFrom(s, i + 1, cur \o Chr(s, i))

SplitWhitespace(s) == SplitWhitespaceFrom(s, 1, "")

\* /^[0-9]+$/.test(s)
IsDecimal(s) == Len(s) > 0 /\ \A i \in 1..Len(s) : Chr(s, i) \in Digits

(***************************************************************************)
(* MicroASM data (completion.ts).                                          *)
(***************************************************************************)
knownRegisters ==
    {"RAX", "RBX", "RCX", "RDX", "RSI", "RDI", "RBP", "RSP", "RIP",
     "R0", "R1", "R2", "R3", "R4", "R5", "R6", "R7", "R8", "R9",
     "R10", "R11", "R12", "R13", "R14", "R15"}

\* the alternation RAX|RBX|RCX|RDX|RSI|RDI|RBP|RSP|RIP|R[0-9]|R1[0-5], as a
\* test of a whole string (the regex is anchored and has no i flag)
RegisterAlternation(s) ==
    \/ s \in {"RAX", "RBX", "RCX", "RDX", "RSI", "RDI", "RBP", "RSP", "RIP"}
    \/ Len(s) = 2 /\ Chr(s, 1) = "R" /\ Chr(s, 2) \in Digits
    \/ Len(s) = 3 /\ SubSeq(s, 1, 2) = "R1"
                  /\ Chr(s, 3) \in {"0", "1", "2", "3", "4", "5"}

\* registerRegex.test(s)
registerRegex(s) == RegisterAlternation(s)

\* ScaleMatch with the scale class widened to [0-9]
ScaleMatchAnyDigit(part) ==
    /\ Len(part) >= 3
    /\ Chr(part, Len(part)) \in Digits
    /\ Chr(part, Len(part) - 1) = "*"
    /\ RegisterAlternation(SubSeq(part, 1, Len(part) - 2))

\* part.match(/^(RAX|...|R1[0-5])\*([1-8])$/) !== null
ScaleMatch(part) ==
    /\ Len(part) >= 3
    /\ Chr(part, Len(part)) \in {"1", "2", "3", "4", "5", "6", "7", "8"}
    /\ Chr(part, Len(part) - 1) = "*"
    /\ RegisterAlternation(SubSeq(part, 1, Len(part) - 2))

\* expr.split(/([+\-])/): the pieces between operators and the operators
\* themselves, empty pieces included; cur is the piece being collected
RECURSIVE SplitOperatorsFrom(_, _, _)
SplitOperatorsFrom(expr, i, cur) ==
    IF i > Len(expr) THEN <<cur>>
    ELSE IF Chr(expr, i) \in {"+", "-"}
         THEN <<cur, Chr(expr, i)>> \o SplitOperatorsFrom(expr, i + 1, "")
         ELSE SplitOperatorsFrom(expr, i + 1, cur \o Chr(expr, i))

\* SplitOperators without the capture group: expr.split(/[+\-]/), which
\* drops the operators
SplitOperatorsNoCapture(expr) ==
    SelectSeq(SplitOperatorsFrom(expr, 1, ""),
              LAMBDA part : Len(part) > 0 /\ part \notin {"+", "-"})

\* .filter(part => part.length > 0)
SplitOperators(expr) ==
    SelectSeq(SplitOperatorsFrom(expr, 1, ""), LAMBDA part : Len(part) > 0)

\* the for loop over parts of isValidMemoryAddress, from index i (1-based)
RECURSIVE PartsValidFrom(_, _)
PartsValidFrom(parts, i) ==
    IF i > Len(parts) THEN TRUE
    ELSE LET part == parts[i] IN
         IF part = "+" \/ part = "-"
         THEN (IF i = Len(parts) THEN FALSE ELSE PartsValidFrom(parts, i + 1))
         ELSE IF IsDecimal(part) THEN PartsValidFrom(parts, i + 1)
         ELSE IF registerRegex(part) THEN PartsValidFrom(parts, i + 1)
         ELSE IF ScaleMatch(part) THEN PartsValidFrom(parts, i + 1)
         ELSE FALSE

isValidMemoryAddress(addr) ==
    IF ~StartsWith(addr, "$") THEN FALSE
    ELSE LET content == SubstringFrom(addr, 1) IN
         IF IsDecimal(content) THEN TRUE
         ELSE IF ~StartsWith(content, "[") \/ ~EndsWith(content, "]") THEN FALSE
         ELSE LET expr == SubSeq(content, 2, Len(content) - 1) IN
              IF Len(expr) = 0 THEN FALSE
              ELSE LET parts == SplitOperators(expr) IN
                   IF Len(parts) = 0 THEN FALSE
                   ELSE IF parts[1] = "+" \/ parts[1] = "-" THEN FALSE
                   ELSE PartsValidFrom(parts, 1)

(***************************************************************************)
(* Diagnostics.  message holds the fixed head of the message text; the     *)
(* interpolated parts are kept in subject (a name, token or path) and      *)
(* refLine (a 1-based line number, 0 when the message has none); data holds*)
(* the suggestion payload ("" when there is none).                         *)
(***************************************************************************)
Diagnostic(severity, line, startChar, endChar, message, subject, refLine, data) ==
    [severity |-> severity, line |-> line, startChar |-> startChar,
     endChar |-> endChar, message |-> message, subject |-> subject,
     refLine |-> refLine, data |-> data]

(***************************************************************************)
(* JavaScript Map, insertion-ordered: a sequence of entries with distinct  *)
(* key fields.                                                             *)
(***************************************************************************)
MapHas(m, k) == \E n \in 1..Len(m) : m[n].key = k
MapGet(m, k) == m[CHOOSE n \in 1..Len(m) : m[n].key = k]
MapKeys(m) == [n \in 1..Len(m) |-> m[n].key]

\* a merge in which an entry of other replaces the entry of m with its key
RECURSIVE MergeKeepLast(_, _)
MergeKeepLast(m, other) ==
    IF Len(other) = 0 THEN m
    ELSE MergeKeepLast(
             IF MapHas(m, Head(other).key)
             THEN [n \in 1..Len(m) |-> IF m[n].key = Head(other).key THEN Head(other) ELSE m[n]]
             ELSE Append(m, Head(other)),
             Tail(other))

\* other.forEach((val, key) => { if (!m.has(key)) m.set(key, val); })
RECURSIVE MergeKeepFirst(_, _)
MergeKeepFirst(m, other) ==
    IF Len(other) = 0 THEN m
    ELSE MergeKeepFirst(
             IF MapHas(m, Head(other).key) THEN m ELSE Append(m, Head(other)),
             Tail(other))

(***************************************************************************)
(* Paths.  A uri and the file-system path it stands for are the same       *)
(* string here; include names are plain file names.                        *)
(***************************************************************************)
RECURSIVE LastIndexOf(_, _, _)
LastIndexOf(s, c, from) ==
    IF from < 1 THEN 0
    ELSE IF Chr(s, from) = c THEN from
    ELSE LastIndexOf(s, c, from - 1)

\* path.dirname(p)
Dirname(p) ==
    LET k == LastIndexOf(p, "/", Len(p))
    IN IF k <= 1 THEN "." ELSE SubSeq(p, 1, k - 1)

\* path.resolve(dir, name) for a plain file name
PathResolve(dir, name) == dir \o "/" \o name

(***************************************************************************)
(* includeRegex = /^#include\s+"([^"]+)"$/i                                *)
(* IncludeMatch(line) is the captured file name, "" when the line does not *)
(* match (the capture is never empty on a match).                         *)
(***************************************************************************)
IncludeMatch(line) ==
    IF Len(line) < 12 \/ ToLowerCase(SubSeq(line, 1, 8)) # "#include" THEN ""
    ELSE LET rest == SubSeq(line, 9, Len(line)) IN
         IF Chr(rest, 1) \notin Whitespace THEN ""
         ELSE LET q == TrimStart(rest) IN
              IF Len(q) < 3 \/ Chr(q, 1) # "\"" \/ Chr(q, Len(q)) # "\"" THEN ""
              ELSE LET name == SubSeq(q, 2, Len(q) - 1) IN
                   IF IndexOf(name, "\"") >= 0 THEN "" ELSE name

\* includeRegex.test(line)
includeRegex(line) == IncludeMatch(line) # ""

(***************************************************************************)
(* parseDocumentRecursive (completion.ts 635-818).  The cache is threaded  *)
(* through the recursion: the operator returns the ParsedDocInfo and the   *)
(* cache as the call leaves it.  fsys = [documents, files].                *)
(***************************************************************************)
NoOrigin == [defined |-> FALSE, line |-> 0, startChar |-> 0, endChar |-> 0]

CircularError(docUri, origin) ==
    Diagnostic("Error", origin.line, origin.startChar, origin.endChar,
               "Circular include detected", docUri, 0, "")

\* the result of the branch that finds docUri in visitedUris with no cache
\* entry, without the error
CircularResultSilent(docUri, origin) ==
    [labels |-> <<>>, dbAddresses |-> <<>>, includeErrors |-> <<>>]

\* the result of that branch with the error reported twice
CircularResultTwice(docUri, origin) ==
    [labels |-> <<>>, dbAddresses |-> <<>>,
     includeErrors |-> <<CircularError(docUri, origin), CircularError(docUri, origin)>>]

\* the result of the branch that finds docUri in visitedUris with no cache
\* entry (662-671)
CircularResult(docUri, origin) ==
    [labels |-> <<>>, dbAddresses |-> <<>>,
     includeErrors |-> <<CircularError(docUri, origin)>>]

\* the resolution that looks in the including file's directory first
ResolveIncludeLocalFirst(includeFilename, docUri, configuredIncludePath, fsys) ==
    IF PathResolve(Dirname(docUri), includeFilename) \in DOMAIN fsys.files
    THEN PathResolve(Dirname(docUri), includeFilename)
    ELSE IF configuredIncludePath # ""
            /\ PathResolve(configuredIncludePath, includeFilename) \in DOMAIN fsys.files
    THEN PathResolve(configuredIncludePath, includeFilename)
    ELSE ""

\* the directory an include name is found in: the configured include path
\* first, then the including file's directory; "" when in neither (706-732)
ResolveInclude(includeFilename, docUri, configuredIncludePath, fsys) ==
    IF configuredIncludePath # ""
       /\ PathResolve(configuredIncludePath, includeFilename) \in DOMAIN fsys.files
    THEN PathResolve(configuredIncludePath, includeFilename)
    ELSE IF PathResolve(Dirname(docUri), includeFilename) \in DOMAIN fsys.files
    THEN PathResolve(Dirname(docUri), includeFilename)
    ELSE ""

\* the LBL / DB branch of the line loop (768-787); i is the 0-based line index
ParseDefinition(acc, docUri, line, i) ==
    LET tokens == SplitWhitespace(line)
        instruction == ToUpperCase(tokens[1])
    IN
    IF instruction = "LBL" /\ Len(tokens) > 1
    THEN IF MapHas(acc.labels, tokens[2]) THEN acc
         ELSE [acc EXCEPT !.labels =
                  Append(@, [key |-> tokens[2], line |-> i, uri |-> docUri])]
    ELSE IF instruction = "DB" /\ Len(tokens) >= 3
    THEN IF isValidMemoryAddress(tokens[2]) /\ ~MapHas(acc.dbAddresses, tokens[2])
         THEN LET stringLiteral == Trim(SubstringFrom(line, IndexOf(line, tokens[3])))
                  size == IF StartsWith(stringLiteral, "\"") /\ EndsWith(stringLiteral, "\"")
                          THEN Len(stringLiteral) - 2 ELSE 0
              IN [acc EXCEPT !.dbAddresses =
                     Append(@, [key |-> tokens[2], line |-> i, size |-> size,
                                uri |-> docUri])]
         ELSE acc
    ELSE acc

\* no report of an include found in neither location
IncludeNotFoundSilent(i, nameStart, includeFilename) == <<>>

\* what the branch for an include found in neither location pushes to
\* currentIncludeErrors (749-762)
IncludeNotFound(i, nameStart, includeFilename) ==
    <<Diagnostic("Error", i, nameStart, nameStart + Len(includeFilename),
                 "Include file not found", includeFilename, 0, "")>>

RECURSIVE parseDocumentRecursive(_, _, _, _, _, _)
\* a visiting set that the includes of one resolve share: it holds every
\* document entered so far
IncludeVisitedShared(visitedUris, cache) == visitedUris \cup DOMAIN cache

\* new Set(visitedUris) (738): the set handed to an include is a copy of the
\* includer's own set
IncludeVisited(visitedUris, cache) == visitedUris

RECURSIVE ParseLines(_, _, _, _, _, _, _)

\* the line loop (696-789) from 0-based line index i on; acc holds
\* currentLabels, currentDbAddresses, currentIncludeErrors and the cache
ParseLines(docUri, lines, i, visitedUris, configuredIncludePath, acc, fsys) ==
    IF i >= Len(lines) THEN acc
    ELSE
    LET line == Trim(lines[i + 1])
        includeFilename == IncludeMatch(line)
        nameStart == IndexOf(lines[i + 1], includeFilename)
        includeRange == [defined |-> TRUE, line |-> i, startChar |-> nameStart,
                         endChar |-> nameStart + Len(includeFilename)]
        resolvedUri == ResolveInclude(includeFilename, docUri, configuredIncludePath, fsys)
        next ==
            IF Len(line) = 0 \/ StartsWith(line, ";") THEN acc
            ELSE IF includeFilename # ""
            THEN IF resolvedUri # ""
                 THEN LET r == parseDocumentRecursive(resolvedUri,
                                   IncludeVisited(visitedUris, acc.cache),
                                   configuredIncludePath, includeRange, acc.cache, fsys)
                      IN [labels |-> MergeKeepFirst(acc.labels, r.info.labels),
                          dbAddresses |-> MergeKeepFirst(acc.dbAddresses, r.info.dbAddresses),
                          includeErrors |-> acc.includeErrors \o r.info.includeErrors,
                          cache |-> r.cache]
                 ELSE [acc EXCEPT !.includeErrors =
                          @ \o IncludeNotFound(i, nameStart, includeFilename)]
            ELSE ParseDefinition(acc, docUri, line, i)
    IN ParseLines(docUri, lines, i + 1, visitedUris, configuredIncludePath, next, fsys)

parseDocumentRecursive(docUri, visitedUris, configuredIncludePath, origin, cache, fsys) ==
    IF docUri \in DOMAIN cache
    THEN IF docUri \in visitedUris /\ origin.defined
         THEN [info |-> [cache[docUri] EXCEPT !.includeErrors =
                            Append(@, CircularError(docUri, origin))],
               cache |-> cache]
         ELSE [info |-> cache[docUri], cache |-> cache]
    ELSE IF docUri \in visitedUris
    THEN [info |-> CircularResult(docUri, origin), cache |-> cache]
    ELSE
    LET visited == visitedUris \cup {docUri}
        start == [labels |-> <<>>, dbAddresses |-> <<>>, includeErrors |-> <<>>,
                  cache |-> cache]
        acc ==
            IF docUri \in DOMAIN fsys.documents
            THEN ParseLines(docUri, fsys.documents[docUri], 0, visited,
                            configuredIncludePath, start, fsys)
            ELSE IF docUri \in DOMAIN fsys.files
            THEN ParseLines(docUri, fsys.files[docUri], 0, visited,
                            configuredIncludePath, start, fsys)
            ELSE [start EXCEPT !.includeErrors =
                     <<Diagnostic("Error", origin.line, origin.startChar, origin.endChar,
                                  "Include file not found", docUri, 0, "")>>]
        result == [labels |-> acc.labels, dbAddresses |-> acc.dbAddresses,
                   includeErrors |-> acc.includeErrors]
    IN [info |-> result,
        cache |-> [u \in DOMAIN acc.cache \cup {docUri} |->
                      IF u = docUri THEN result ELSE acc.cache[u]]]

\* getParsedDocInfo (822-825)
getParsedDocInfo(docUri, configuredIncludePath, cache, fsys) ==
    parseDocumentRecursive(docUri, {}, configuredIncludePath, NoOrigin, cache, fsys)

(***************************************************************************)
(* levenshteinDistance and findClosestMatch (completion.ts 505-549).       *)
(***************************************************************************)
\* row i of the matrix, filled left to right; cur[j + 1] is matrix[i][j]
RECURSIVE LevenshteinRow(_, _, _, _, _)
LevenshteinRow(a, b, i, prev, cur) ==
    LET j == Len(cur) IN
    IF j > Len(a) THEN cur
    ELSE LET cost == IF Chr(b, i) = Chr(a, j) THEN 0 ELSE 1
             cell == Min(Min(prev[j + 1] + 1, cur[j] + 1), prev[j] + cost)
         IN LevenshteinRow(a, b, i, prev, Append(cur, cell))

RECURSIVE LevenshteinRows(_, _, _, _)
LevenshteinRows(a, b, i, prev) ==
    IF i > Len(b) THEN prev[Len(a) + 1]
    ELSE LevenshteinRows(a, b, i + 1, LevenshteinRow(a, b, i, prev, <<i>>))

levenshteinDistance(a, b) ==
    IF Len(a) = 0 THEN Len(b)
    ELSE IF Len(b) = 0 THEN Len(a)
    ELSE LevenshteinRows(a, b, 1, [j \in 1..(Len(a) + 1) |-> j - 1])

\* the loop body with distance <= minDistance: the last of several closest
\* options is kept
ClosestMatchStepLastWins(input, option, maxDistance, best) ==
    LET distance == levenshteinDistance(ToLowerCase(input), ToLowerCase(option))
    IN IF distance <= best.minDistance /\ distance <= maxDistance
       THEN [found |-> TRUE, match |-> option, minDistance |-> distance]
       ELSE best

\* the loop body with distance < maxDistance
ClosestMatchStepStrict(input, option, maxDistance, best) ==
    LET distance == levenshteinDistance(ToLowerCase(input), ToLowerCase(option))
    IN IF distance < best.minDistance /\ distance < maxDistance
       THEN [found |-> TRUE, match |-> option, minDistance |-> distance]
       ELSE best

\* one iteration of the loop of findClosestMatch (542-546); best is
\* [found, match, minDistance]
ClosestMatchStep(input, option, maxDistance, best) ==
    LET distance == levenshteinDistance(ToLowerCase(input), ToLowerCase(option))
    IN IF distance < best.minDistance /\ distance <= maxDistance
       THEN [found |-> TRUE, match |-> option, minDistance |-> distance]
       ELSE best

\* the loop of findClosestMatch (541-547) over options[lo..hi], in order:
\* the first half, then the second half from where the first left best.
\* Once minDistance is 0 no later option satisfies distance < minDistance,
\* so the remaining iterations leave best as it is.
RECURSIVE ClosestMatchLoop(_, _, _, _, _, _)
ClosestMatchLoop(input, options, maxDistance, lo, hi, best) ==
    IF lo > hi THEN best
    ELSE IF lo = hi THEN ClosestMatchStep(input, options[lo], maxDistance, best)
    ELSE LET mid == (lo + hi) \div 2
             left == ClosestMatchLoop(input, options, maxDistance, lo, mid, best)
         IN IF left.minDistance = 0 THEN left
            ELSE ClosestMatchLoop(input, options, maxDistance, mid + 1, hi, left)

\* findClosestMatch(input, options, maxDistance): [found, match]; found is
\* FALSE for a null return.  options is the iterable in iteration order.
findClosestMatch(input, options, maxDistance) ==
    LET best == ClosestMatchLoop(input, options, maxDistance, 1, Len(options),
                    [found |-> FALSE, match |-> "", minDistance |-> maxDistance + 1])
    IN [found |-> best.found, match |-> best.match]

DefaultMaxDistance == 2

(***************************************************************************)
(* Instruction tables (completion.ts 317-359) and the native-function      *)
(* signature table handed to validateTextDocument.                         *)
(***************************************************************************)
\* the Set knownInstructions in insertion order
knownInstructionsOrder ==
    <<"MOV", "ADD", "SUB", "MUL", "DIV", "INC", "JMP", "CMP", "JE", "JL", "CALL",
      "PUSH", "POP", "IN", "OUT", "COUT", "HLT", "EXIT", "ARGC", "GETARG", "DB",
      "LBL", "AND", "OR", "XOR", "NOT", "SHL", "SHR", "MOVADDR", "MOVTO",
      "JNE", "JG", "JLE", "JGE", "ENTER", "LEAVE", "COPY", "FILL", "CMP_MEM", "MNI">>

knownInstructions == {knownInstructionsOrder[n] : n \in 1..Len(knownInstructionsOrder)}

\* the control-transfer set without CALL
jumpInstructionsWithoutCall == {"JMP", "JE", "JL", "JNE", "JG", "JLE", "JGE"}

jumpInstructions == {"JMP", "JE", "JL", "CALL", "JNE", "JG", "JLE", "JGE"}

\* instructionArgCounts[instr] = <<min, max>>; max = -1 means no upper limit
instructionArgCounts(instr) ==
    IF instr \in {"HLT", "LEAVE"} THEN <<0, 0>>
    ELSE IF instr \in {"INC", "JMP", "JL", "CALL", "PUSH", "POP", "IN", "EXIT", "ARGC",
                       "LBL", "NOT", "JNE", "JG", "JLE", "JGE", "ENTER"} THEN <<1, 1>>
    ELSE IF instr = "JE" THEN <<1, 2>>
    ELSE IF instr = "DB" THEN <<2, -1>>
    ELSE IF instr = "MNI" THEN <<1, -1>>
    ELSE IF instr \in {"MOVADDR", "MOVTO", "COPY", "FILL", "CMP_MEM"} THEN <<3, 3>>
    ELSE <<2, 2>>

\* a signature table as loadMNISpecs builds it from declaration files:
\* "namespace.function" -> args
mniSpecMap ==
    [f \in {"Math.sin", "Mem.copy", "Sys.exit"} |->
        IF f = "Math.sin" THEN <<"register">>
        ELSE IF f = "Mem.copy" THEN <<"memory", "register">>
        ELSE <<"immediate">>]

\* immediateValueRegex = /^[0-9]+$/
immediateValueRegex(s) == IsDecimal(s)

\* /^[a-zA-Z_][a-zA-Z0-9_]*$/.test(s)
IsLetterOrUnderscore(c) ==
    c = "_" \/ c \in DOMAIN UpperOf \/ c \in DOMAIN LowerOf

LabelNameFormat(s) ==
    /\ Len(s) >= 1
    /\ IsLetterOrUnderscore(Chr(s, 1))
    /\ \A n \in 2..Len(s) : IsLetterOrUnderscore(Chr(s, n)) \/ Chr(s, n) \in Digits

\* labelRegex = /^#[a-zA-Z_][a-zA-Z0-9_]*$/
labelRegex(s) == StartsWith(s, "#") /\ LabelNameFormat(SubSeq(s, 2, Len(s)))

(***************************************************************************)
(* validateTextDocument (validation.ts).  st is the state of one call:     *)
(*   uri, lines, maxNumberOfProblems, allLabels, allDbAddresses,           *)
(*   i (0-based index of the next line), problems, diagnostics,            *)
(*   unreachable, unreachableStartLine, unreachableStartInstr,             *)
(*   referencedLabels, referencedDbAddresses,                              *)
(*   tokens (the pass-2 tokens of the line handled last, <<>> if skipped), *)
(*   result (the returned list, once pc = "done").                         *)
(***************************************************************************)
AddProblem(st, d) ==
    [st EXCEPT !.problems = @ + 1, !.diagnostics = Append(@, d)]

\* a diagnostic pushed without problems++
AddDiagnostic(st, d) == [st EXCEPT !.diagnostics = Append(@, d)]

\* stripComment that keeps the comment
stripCommentKeep(line) == line

\* stripComment (61-64)
stripComment(line) ==
    LET commentIndex == IndexOf(line, ";")
    IN IF commentIndex # -1 THEN Trim(Substring(line, 0, commentIndex)) ELSE line

\* codeLine.split(/\s+/).filter(token => token.length > 0) of the
\* comment-stripped line (86-87, 154-155)
LineTokens(line) == SplitWhitespace(stripComment(line))

\* the text from the third token of a DB line to the end of the raw line,
\* trimmed (119-120, 159-160)
DbStringPartIndex(raw, tokens) ==
    IndexOfFrom(raw, tokens[3],
                Max(0, IndexOf(raw, tokens[1]) + Len(tokens[1]) + 1 + Len(tokens[2])))

DbStringLiteral(raw, tokens) == Trim(SubstringFrom(raw, DbStringPartIndex(raw, tokens)))

\* unreachable-code detection (73-83); line is the trimmed line
UnreachableCheck(st, i, line) ==
    IF st.unreachable /\ Len(line) > 0 /\ ~StartsWith(line, ";")
    THEN AddProblem(st, Diagnostic("Warning", i, 0, Len(line),
                        "Unreachable code detected after",
                        st.unreachableStartInstr, st.unreachableStartLine + 1, ""))
    ELSE st

\* pass 1 (89-149): format and redefinition of LBL and DB
Pass1(st, i, raw, tokens) ==
    LET instruction == ToUpperCase(tokens[1]) IN
    IF instruction = "LBL"
    THEN IF Len(tokens) = 2
         THEN LET labelName == tokens[2]
                  at == IndexOf(raw, labelName)
              IN IF ~LabelNameFormat(labelName)
                 THEN AddProblem(st, Diagnostic("Error", i, at, at + Len(labelName),
                                     "Invalid label name format", labelName, 0, ""))
                 ELSE IF /\ MapHas(st.allLabels, labelName)
                         /\ MapGet(st.allLabels, labelName).uri = st.uri
                         /\ MapGet(st.allLabels, labelName).line # i
                 THEN AddProblem(st, Diagnostic("Warning", i, at, at + Len(labelName),
                                     "Label redefined in this file", labelName,
                                     MapGet(st.allLabels, labelName).line + 1, ""))
                 ELSE st
         ELSE st
    ELSE IF instruction = "DB"
    THEN IF Len(tokens) >= 3
         THEN LET addressArg == tokens[2]
                  at == IndexOf(raw, addressArg)
                  stringPartIndex == DbStringPartIndex(raw, tokens)
                  stringLiteral == DbStringLiteral(raw, tokens)
              IN IF ~isValidMemoryAddress(addressArg)
                 THEN AddProblem(st, Diagnostic("Error", i, at, at + Len(addressArg),
                                     "Invalid DB address format", addressArg, 0, ""))
                 ELSE IF ~StartsWith(stringLiteral, "\"") \/ ~EndsWith(stringLiteral, "\"")
                 THEN AddProblem(st, Diagnostic("Error", i, stringPartIndex, Len(raw),
                                     "Invalid DB string format", "", 0, ""))
                 ELSE IF /\ MapHas(st.allDbAddresses, addressArg)
                         /\ MapGet(st.allDbAddresses, addressArg).uri = st.uri
                         /\ MapGet(st.allDbAddresses, addressArg).line # i
                 THEN AddProblem(st, Diagnostic("Warning", i, at, at + Len(addressArg),
                                     "DB address redefined in this file", addressArg,
                                     MapGet(st.allDbAddresses, addressArg).line + 1, ""))
                 ELSE st
         ELSE st
    ELSE st

\* the tokens pass 2 works on (155-162): a DB line keeps its third token
\* onward as one string literal
Pass2Tokens(raw, tokens) ==
    IF ToUpperCase(tokens[1]) = "DB" /\ Len(tokens) >= 3
    THEN <<tokens[1], tokens[2], DbStringLiteral(raw, tokens)>>
    ELSE tokens

\* ResetOnLabel that leaves the flag alone
ResetOnLabelNever(st, instruction) == st

\* reset of the unreachable flag on a label definition (166-171)
ResetOnLabel(st, instruction) ==
    IF instruction = "LBL"
    THEN [st EXCEPT !.unreachable = FALSE, !.unreachableStartLine = -1,
                    !.unreachableStartInstr = ""]
    ELSE st

\* the unknown-instruction diagnostic without its data payload
UnknownInstructionNoData(st, i, raw, tokens) ==
    LET at == IndexOf(raw, tokens[1])
    IN AddProblem(st, Diagnostic("Error", i, at, at + Len(tokens[1]),
                      "Unknown instruction", tokens[1], 0, ""))

\* the unknown-instruction diagnostic (174-197)
UnknownInstruction(st, i, raw, tokens) ==
    LET suggestion == findClosestMatch(tokens[1], knownInstructionsOrder, DefaultMaxDistance)
        at == IndexOf(raw, tokens[1])
    IN AddProblem(st, Diagnostic("Error", i, at, at + Len(tokens[1]),
                      "Unknown instruction", tokens[1], 0,
                      IF suggestion.found THEN suggestion.match ELSE ""))

\* the argument-count check (202-225)
ArgumentCount(st, i, raw, tokens, instruction) ==
    LET countInfo == instructionArgCounts(instruction)
        argCount == Len(tokens) - 1
        isValidCount == IF countInfo[2] = -1 THEN argCount >= countInfo[1]
                        ELSE argCount >= countInfo[1] /\ argCount <= countInfo[2]
    IN IF isValidCount THEN st
       ELSE AddProblem(st, Diagnostic("Error", i, IndexOf(raw, tokens[1]), Len(raw),
                           "expects arguments, but got", instruction, argCount, ""))

\* the POP operand check (228-240)
PopOperand(st, i, raw, tokens, instruction) ==
    IF instruction = "POP" /\ Len(tokens) = 2 /\ ~registerRegex(tokens[2])
    THEN LET at == IndexOfFrom(raw, tokens[2], Max(0, IndexOf(raw, tokens[1]) + Len(tokens[1])))
         IN AddProblem(st, Diagnostic("Error", i, at, at + Len(tokens[2]),
                           "POP expects a register as its argument, but got",
                           tokens[2], 0, ""))
    ELSE st

\* the body of the argument loop for args[j] (0-based j), 244-324
CheckArgument(st, i, raw, tokens, instruction, j) ==
    LET arg == tokens[j + 2]
        from == IF j = 0 THEN IndexOf(raw, tokens[1]) + Len(tokens[1])
                ELSE IndexOf(raw, tokens[j + 1]) + Len(tokens[j + 1])
        at == IndexOfFrom(raw, arg, Max(0, from))
        checked ==
            IF registerRegex(arg) /\ arg \notin knownRegisters
            THEN AddProblem(st, Diagnostic("Error", i, at, at + Len(arg),
                                "Unknown register", arg, 0, ""))
            ELSE IF StartsWith(arg, "#")
            THEN IF ~labelRegex(arg)
                 THEN AddProblem(st, Diagnostic("Error", i, at, at + Len(arg),
                                     "Invalid label format", arg, 0, ""))
                 ELSE LET labelName == SubstringFrom(arg, 1) IN
                      IF instruction \in jumpInstructions /\ ~MapHas(st.allLabels, labelName)
                      THEN LET suggestion == findClosestMatch(labelName,
                                                 MapKeys(st.allLabels), DefaultMaxDistance)
                           IN AddProblem(st, Diagnostic("Error", i, at, at + Len(arg),
                                  "Undefined label", arg, 0,
                                  IF suggestion.found THEN "#" \o suggestion.match ELSE ""))
                      ELSE st
            ELSE IF StartsWith(arg, "$")
            THEN IF ~isValidMemoryAddress(arg)
                 THEN AddProblem(st, Diagnostic("Error", i, at, at + Len(arg),
                                     "Invalid memory address format", arg, 0, ""))
                 ELSE IF ~MapHas(st.allDbAddresses, arg) /\ instruction = "OUT" /\ j = 1
                 THEN AddProblem(st, Diagnostic("Warning", i, at, at + Len(arg),
                                     "Memory address not defined by DB", arg, 0, ""))
                 ELSE st
            ELSE st
        withLabel ==
            IF StartsWith(arg, "#") /\ labelRegex(arg)
            THEN [checked EXCEPT !.referencedLabels = @ \cup {SubstringFrom(arg, 1)}]
            ELSE checked
    IN IF StartsWith(arg, "$") /\ isValidMemoryAddress(arg)
       THEN [withLabel EXCEPT !.referencedDbAddresses = @ \cup {arg}]
       ELSE withLabel

RECURSIVE CheckArguments(_, _, _, _, _, _)
CheckArguments(st, i, raw, tokens, instruction, j) ==
    IF j >= Len(tokens) - 1 THEN st
    ELSE CheckArguments(CheckArgument(st, i, raw, tokens, instruction, j),
                        i, raw, tokens, instruction, j + 1)

\* the instructions after which code is unreachable (327)
Terminators == {"HLT", "JMP", "EXIT"}

\* marking unreachable after an unconditional instruction (327-331)
MarkUnreachable(st, i, instruction) ==
    IF instruction \in Terminators
    THEN [st EXCEPT !.unreachable = TRUE, !.unreachableStartLine = i,
                    !.unreachableStartInstr = instruction]
    ELSE st

\* the type check of MNI argument k (0-based), 357-372; line is the trimmed line
RECURSIVE MniArgumentTypes(_, _, _, _, _, _)
MniArgumentTypes(st, i, line, tokens, spec, k) ==
    IF k >= Len(spec) THEN st
    ELSE LET expectedType == spec[k + 1]
             actualArg == tokens[k + 3]
             typeOk == \/ expectedType = "register" /\ registerRegex(actualArg)
                       \/ expectedType = "memory" /\ isValidMemoryAddress(actualArg)
             at == IndexOf(line, actualArg)
         IN MniArgumentTypes(
                IF typeOk THEN st
                ELSE AddDiagnostic(st, Diagnostic("Error", i, at, at + Len(actualArg),
                                       "MNI argument type", actualArg, k + 1, "")),
                i, line, tokens, spec, k + 1)

\* the MNI checks (334-375); their diagnostics do not count as problems
MniChecks(st, i, line, tokens, instruction) ==
    IF instruction = "MNI" /\ Len(tokens) > 1
    THEN LET funcName == tokens[2]
             at == IndexOf(line, funcName)
         IN IF funcName \notin DOMAIN mniSpecMap
            THEN AddDiagnostic(st, Diagnostic("Error", i, at, at + Len(funcName),
                                   "Unknown MNI function", funcName, 0, ""))
            ELSE IF Len(tokens) - 2 # Len(mniSpecMap[funcName])
            THEN AddDiagnostic(st, Diagnostic("Error", i, 0, Len(line),
                                   "MNI expects arguments, got", funcName,
                                   Len(tokens) - 2, ""))
            ELSE MniArgumentTypes(st, i, line, tokens, mniSpecMap[funcName], 0)
    ELSE st

\* one iteration of the line loop (68-375) for line st.i
ValidateLine(st) ==
    LET i == st.i
        raw == st.lines[i + 1]
        line == Trim(raw)
        skipped == [st EXCEPT !.i = i + 1, !.tokens = <<>>]
    IN
    IF Len(line) = 0 \/ StartsWith(line, ";") \/ includeRegex(line) THEN skipped
    ELSE
    LET s1 == UnreachableCheck(st, i, line)
        tokensForPass1 == LineTokens(line)
    IN
    IF Len(tokensForPass1) = 0 THEN [s1 EXCEPT !.i = i + 1, !.tokens = <<>>]
    ELSE
    LET s2 == Pass1(s1, i, raw, tokensForPass1)
        tokens == Pass2Tokens(raw, LineTokens(line))
        instruction == ToUpperCase(tokens[1])
        s3 == ResetOnLabel(s2, instruction)
    IN
    IF instruction \notin knownInstructions
    THEN [UnknownInstruction(s3, i, raw, tokens) EXCEPT !.i = i + 1, !.tokens = tokens]
    ELSE
    LET s4 == ArgumentCount(s3, i, raw, tokens, instruction)
        s5 == PopOperand(s4, i, raw, tokens, instruction)
        s6 == CheckArguments(s5, i, raw, tokens, instruction, 0)
        s7 == MarkUnreachable(s6, i, instruction)
        s8 == MniChecks(s7, i, line, tokens, instruction)
    IN [s8 EXCEPT !.i = i + 1, !.tokens = tokens]

\* the condition of the line loop (67)
LoopContinues(st) == st.i < Len(st.lines) /\ st.problems < st.maxNumberOfProblems

\* the unused-symbol sweep over a Map (379-399)
RECURSIVE UnusedSweep(_, _, _, _, _, _)
UnusedSweep(diagnostics, map, n, referenced, exempt, message) ==
    IF n > Len(map) THEN diagnostics
    ELSE UnusedSweep(
             IF map[n].key \in exempt \/ map[n].key \in referenced THEN diagnostics
             ELSE Append(diagnostics, Diagnostic("Warning", map[n].line, 0, 0,
                                          message, map[n].key, 0, "")),
             map, n + 1, referenced, exempt, message)

\* Array.prototype.slice(0, end)
Slice0(seq, end) ==
    LET e == IF end < 0 THEN Max(Len(seq) + end, 0) ELSE Min(end, Len(seq))
    IN SubSeq(seq, 1, e)

\* a return without the final slice
ReturnUnsliced(seq, end) == seq

\* the returned list: finalDiagnostics.slice(0, settings.maxNumberOfProblems) (413)
ReturnSlice(seq, end) == Slice0(seq, end)

\* no label is exempt from the unused check
ExemptLabelsNone == {}

\* the labels the unused check skips (380)
ExemptLabels == {"main"}

\* the code after the line loop (378-413)
FinishValidation(st) ==
    LET withLabels == UnusedSweep(st.diagnostics, st.allLabels, 1, st.referencedLabels,
                                  ExemptLabels, "Label defined but never referenced")
        withDbs == UnusedSweep(withLabels, st.allDbAddresses, 1,
                               st.referencedDbAddresses, {},
                               "DB address defined but never referenced")
    IN [st EXCEPT !.diagnostics = withDbs,
                  !.result = ReturnSlice(withDbs, st.maxNumberOfProblems),
                  !.pc = "done"]

\* the include path handed to the resolver (25-38): the toolchain
\* descriptor's include path replaces the configured one
ConfiguredIncludePath(sett, tmasIncludePath) ==
    IF tmasIncludePath # "" THEN tmasIncludePath ELSE sett.includePath

\* the start of validateTextDocument up to the line loop (25-58); parsed is
\* what getParsedDocInfo returned
StartValidation(uri, lines, sett, parsed) ==
    [pc |-> "loop", uri |-> uri, lines |-> lines,
     maxNumberOfProblems |-> sett.maxNumberOfProblems,
     allLabels |-> parsed.labels, allDbAddresses |-> parsed.dbAddresses,
     i |-> 0, problems |-> Len(parsed.includeErrors),
     diagnostics |-> parsed.includeErrors,
     unreachable |-> FALSE, unreachableStartLine |-> -1, unreachableStartInstr |-> "",
     referencedLabels |-> {}, referencedDbAddresses |-> {},
     tokens |-> <<>>, result |-> <<>>]

(***************************************************************************)
(* Values of the variables a specification does not exercise.              *)
(***************************************************************************)
NoDocuments == [u \in {} |-> <<>>]
EmptyCache == [u \in {} |-> <<>>]
IdlePass == [pc |-> "idle"]
IdleClosest == [pc |-> "idle"]
IdleCompletion == [pc |-> "idle"]
DefaultMaxNumberOfProblems == 1000
defaultSettings ==
    [maxNumberOfProblems |-> DefaultMaxNumberOfProblems, includePath |-> ""]

(***************************************************************************)
(* validateTextDocument on an open document, one step for the code up to   *)
(* the line loop, one per loop iteration and one for the code after the    *)
(* loop.  The call is one the diagnostics handler makes on a request, or   *)
(* one that a notification handler started and that has got its settings   *)
(* (it then leaves pending).  A new call may run once the last one has     *)
(* returned.                                                               *)
(***************************************************************************)
BeginValidate(uri) ==
    /\ pass.pc \in {"idle", "done"}
    /\ uri \in DOMAIN documents
    /\ LET parsed == getParsedDocInfo(uri,
                         ConfiguredIncludePath(settings, toolchainIncludePath),
                         parsedDocCache, [documents |-> documents, files |-> files])
       IN /\ parsedDocCache' = parsed.cache
          /\ pass' = StartValidation(uri, documents[uri], settings, parsed.info)
    /\ pending' \in {pending, pending \ {uri}}
    /\ UNCHANGED <<completion, closest, address, valid, addrPc, documents, files, settings, toolchainIncludePath>>

StepLine ==
    /\ pass.pc = "loop"
    /\ LoopContinues(pass)
    /\ pass' = ValidateLine(pass)
    /\ UNCHANGED <<completion, pending, closest, address, valid, addrPc, documents, files, settings, toolchainIncludePath,
                   parsedDocCache>>

EndValidate ==
    /\ pass.pc = "loop"
    /\ ~LoopContinues(pass)
    /\ pass' = FinishValidation(pass)
    /\ UNCHANGED <<completion, pending, closest, address, valid, addrPc, documents, files, settings, toolchainIncludePath,
                   parsedDocCache>>

NextValidate ==
    \/ \E uri \in DOMAIN documents : BeginValidate(uri)
    \/ StepLine
    \/ EndValidate

\* the texts of at most n lines drawn from menu
Texts(menu, n) == UNION {[1..k -> menu] : k \in 1..n}

MaxLines == 3
MaxCap == 3

UriA == "src/A.masm"
UriB == "src/B.masm"

\* the worlds of the validation specifications: document A open with a
\* text over menu, the files of disk on disk besides A itself
InitValidate(menu, caps, disk) ==
    /\ address = ""
    /\ valid = FALSE
    /\ addrPc = "ready"
    /\ completion = IdleCompletion
    /\ pending = {}
    /\ closest = IdleClosest
    /\ \E text \in Texts(menu, MaxLines) :
          /\ documents = [u \in {UriA} |-> text]
          /\ files = [u \in {UriA} \cup DOMAIN disk |-> IF u = UriA THEN text ELSE disk[u]]
    /\ \E cap \in caps : settings = [maxNumberOfProblems |-> cap, includePath |-> ""]
    /\ toolchainIncludePath = ""
    /\ parsedDocCache = EmptyCache
    /\ pass = IdlePass

(***************************************************************************)
(* SpecAddress: isValidMemoryAddress applied to one input string.          *)
(* The inputs are "$" b, "$[" b "]" and malformed wrappings of b, where b  *)
(* is a concatenation of at most MaxAddrPieces pieces, plus the strings    *)
(* the test files and the documentation name.                              *)
(***************************************************************************)
MaxAddrPieces == 3
AddrPieces == {"RBP", "RAX", "rbp", "R1", "4", "9", "+", "-", "*"}

RECURSIVE AddrBodies(_)
AddrBodies(n) ==
    IF n = 0 THEN {""}
    ELSE LET prev == AddrBodies(n - 1)
         IN prev \cup {b \o p : b \in prev, p \in AddrPieces}

AddrSamples ==
    {"$123", "$[RBP-4]", "$[RAX*9]", "$[]", "$[+4]", "$[RBP+]", "$[UNKNOWNREG]",
     "$[RBP++4]", "$[rbp-4]", "$[", "$]", "$[RBP*]", "$[INVALID]", "$[4-RBP-]",
     "$[RSP]", "$[RBX+RCX*2]", "$[RSP+RDI*4+16]", "$[R15]", "$[R16]", "$", "",
     "RAX", "$[Rbp+rCx*2]", "$[RAX*0]", "$[R10*8]"}

AddrInputs(n) ==
    LET bodies == AddrBodies(n)
    IN  {"$[" \o b \o "]" : b \in bodies}
        \cup {"$" \o b : b \in bodies}
        \cup {"[" \o b \o "]" : b \in bodies}
        \cup AddrSamples

InitAddress ==
    /\ address \in AddrInputs(MaxAddrPieces)
    /\ valid = FALSE
    /\ addrPc = "ready"
    /\ completion = IdleCompletion
    /\ pending = {}
    /\ closest = IdleClosest
    /\ documents = NoDocuments
    /\ files = NoDocuments
    /\ settings = defaultSettings
    /\ toolchainIncludePath = ""
    /\ parsedDocCache = EmptyCache
    /\ pass = IdlePass

\* one call isValidMemoryAddress(address)
CallIsValidMemoryAddress ==
    /\ addrPc = "ready"
    /\ valid' = isValidMemoryAddress(address)
    /\ addrPc' = "returned"
    /\ UNCHANGED <<completion, pending, closest, address, documents, files, settings, toolchainIncludePath,
                   parsedDocCache, pass>>

NextAddress == CallIsValidMemoryAddress

SpecAddress == InitAddress /\ [][NextAddress]_vars

(***************************************************************************)
(* Properties of isValidMemoryAddress (checked under SpecAddress).         *)
(***************************************************************************)
Operators == {"+", "-"}

IsBracketForm(a) == Len(a) >= 3 /\ StartsWith(a, "$[") /\ EndsWith(a, "]")
BracketBody(a) == SubSeq(a, 3, Len(a) - 1)

HasConsecutiveOperators(b) ==
    \E i \in 1..(Len(b) - 1) : Chr(b, i) \in Operators /\ Chr(b, i + 1) \in Operators

\* The grammar of the addressing expression, as a recogniser:
\*   term := decimal_number | register | register '*' scale, scale in 1..8
\*   bracket_expr := term (('+'|'-') term)*
GrammarTerm(t) ==
    \/ IsDecimal(t)
    \/ t \in knownRegisters
    \/ \E r \in knownRegisters, k \in 1..8 : t = r \o "*" \o Chr("12345678", k)

RECURSIVE GrammarBody(_)
GrammarBody(b) ==
    \E k \in 1..Len(b) :
        /\ GrammarTerm(SubSeq(b, 1, k))
        /\ \/ k = Len(b)
           \/ /\ k + 1 < Len(b)
              /\ Chr(b, k + 1) \in Operators
              /\ GrammarBody(SubSeq(b, k + 2, Len(b)))

GrammarAddress(a) ==
    \/ StartsWith(a, "$") /\ IsDecimal(SubSeq(a, 2, Len(a)))
    \/ IsBracketForm(a) /\ GrammarBody(BracketBody(a))

\* b has a term (a maximal non-empty run without operators) that is none of
\* the three forms
HasBadTerm(b) ==
    \E i \in 1..Len(b) : \E j \in i..Len(b) :
        /\ \A k \in i..j : Chr(b, k) \notin Operators
        /\ i = 1 \/ Chr(b, i - 1) \in Operators
        /\ j = Len(b) \/ Chr(b, j + 1) \in Operators
        /\ ~GrammarTerm(SubSeq(b, i, j))

RECURSIVE JoinParts(_)
JoinParts(parts) ==
    IF Len(parts) = 0 THEN "" ELSE Head(parts) \o JoinParts(Tail(parts))

\* C3: isValidMemoryAddress rejects every bracket expression that contains
\* two consecutive operators, e.g. "$[RBP++4]".
C3_ConsecutiveOperatorsRejected ==
    (addrPc = "returned" /\ IsBracketForm(address)
        /\ HasConsecutiveOperators(BracketBody(address)))
    => valid = FALSE

\* C4: "$" decimal and "$[" term (op term)* "]" are accepted; an empty body,
\* a leading or trailing operator, a scale outside 1..8 and a term that is
\* none of the three forms are rejected; the named examples behave as stated.
C4_AddressGrammar ==
    addrPc = "returned" =>
        /\ GrammarAddress(address) => valid = TRUE
        /\ (IsBracketForm(address) /\
              LET b == BracketBody(address) IN
                \/ b = ""
                \/ Chr(b, 1) \in Operators
                \/ Chr(b, Len(b)) \in Operators
                \/ HasBadTerm(b))
           => valid = FALSE
        /\ address \in {"$[RBP-4]", "$123"} => valid = TRUE
        /\ address \in {"$[RAX*9]", "$[]", "$[+4]", "$[RBP+]", "$[UNKNOWNREG]"}
           => valid = FALSE

C4_Witness == addrPc = "returned" /\ address = "$[RAX*9]" /\ valid = FALSE

\* C5: every accepted expression is still accepted with its register names
\* written in lower case.
C5_RegisterCaseInsensitive ==
    (addrPc = "returned" /\ valid = TRUE /\ GrammarAddress(address))
    => isValidMemoryAddress(ToLowerCase(address)) = TRUE

\* C6: the call returns a boolean for every input and changes nothing else,
\* and an accepted bracket body split into its operator and term tokens and
\* concatenated again is still accepted.
C6_TotalPureRoundTrip ==
    [][addrPc' = "returned" =>
        /\ valid' \in BOOLEAN
        /\ UNCHANGED <<completion, pending, closest, address, documents, files, settings, toolchainIncludePath,
                       parsedDocCache, pass>>
        /\ (valid' = TRUE /\ IsBracketForm(address)) =>
              isValidMemoryAddress(
                  "$[" \o JoinParts(SplitOperators(BracketBody(address))) \o "]") = TRUE
      ]_vars

C6_Witness ==
    /\ addrPc = "returned" /\ valid = TRUE /\ IsBracketForm(address)
    /\ Len(SplitOperators(BracketBody(address))) >= 5

(***************************************************************************)
(* SpecCap: documents whose lines give include errors, several diagnostics *)
(* on one line, MNI diagnostics and unused symbols, under small caps.      *)
(***************************************************************************)
CapMenu ==
    {"#include \"B.masm\"", "MNI Bad.fn R1", "MOV R1 #9x $[", "LBL unused",
     "DB $5 \"x\""}

CapDisk == [u \in {UriB} |-> <<"LBL helper", "#include \"gone.masm\"">>]

CapChoices == (0..MaxCap) \cup {DefaultMaxNumberOfProblems}

InitCap == InitValidate(CapMenu, CapChoices, CapDisk)

SpecCap == InitCap /\ [][NextValidate]_vars

HasMessage(diags, message) == \E n \in 1..Len(diags) : diags[n].message = message

\* C1: the list validateTextDocument returns has at most maxNumberOfProblems
\* entries, whatever the include errors, the diagnostics per line, the MNI
\* diagnostics and the unused-symbol sweep contribute.
C1_DiagnosticsCapped ==
    pass.pc = "done" => Len(pass.result) <= pass.maxNumberOfProblems

\* a returned list the final slice has shortened, of a pass that collected
\* an include error, an MNI diagnostic and an unused-symbol warning
C1_Witness ==
    /\ pass.pc = "done"
    /\ pass.maxNumberOfProblems > 0
    /\ Len(pass.diagnostics) > pass.maxNumberOfProblems
    /\ Len(pass.result) = pass.maxNumberOfProblems
    /\ HasMessage(pass.diagnostics, "Include file not found")
    /\ HasMessage(pass.diagnostics, "Unknown MNI function")
    /\ HasMessage(pass.diagnostics, "Label defined but never referenced")

(***************************************************************************)
(* SpecInclude: documents A and B, both open, whose lines include each     *)
(* other, themselves or nothing; either may be validated first.            *)
(***************************************************************************)
MaxIncludeLines == 2

IncludeMenu == {"#include \"B.masm\"", "#include \"A.masm\"", "LBL x"}

InitInclude ==
    /\ address = ""
    /\ valid = FALSE
    /\ addrPc = "ready"
    /\ completion = IdleCompletion
    /\ pending = {}
    /\ closest = IdleClosest
    /\ \E ta \in Texts(IncludeMenu, MaxIncludeLines) :
       \E tb \in Texts(IncludeMenu, MaxIncludeLines) :
          /\ documents = [u \in {UriA, UriB} |-> IF u = UriA THEN ta ELSE tb]
          /\ files = documents
    /\ settings = defaultSettings
    /\ toolchainIncludePath = ""
    /\ parsedDocCache = EmptyCache
    /\ pass = IdlePass

SpecInclude == InitInclude /\ [][NextValidate]_vars

\* the files the include lines of a text name, in line order, for a text
\* that lies in directory dir
RECURSIVE IncludedUris(_, _)
IncludedUris(dir, lines) ==
    IF Len(lines) = 0 THEN <<>>
    ELSE LET name == IncludeMatch(Trim(Head(lines)))
         IN (IF name = "" THEN <<>> ELSE <<PathResolve(dir, name)>>)
            \o IncludedUris(dir, Tail(lines))

\* A includes B (once, and nothing else) and B includes A (likewise)
MutualInclude ==
    /\ DOMAIN documents = {UriA, UriB}
    /\ IncludedUris("src", documents[UriA]) = <<UriB>>
    /\ IncludedUris("src", documents[UriB]) = <<UriA>>

IsCircularError(d) == d.severity = "Error" /\ d.message = "Circular include detected"

\* C2: when A includes B and B includes A and the cache is empty, resolving A
\* returns, and the include errors it returns are exactly one diagnostic,
\* which reports a circular include.
C2_CircularIncludeOnce ==
    [][(/\ MutualInclude
        /\ parsedDocCache = EmptyCache
        /\ pass.pc = "idle" /\ pass'.pc = "loop" /\ pass'.uri = UriA)
       => /\ pass'.problems = 1
          /\ Len(pass'.diagnostics) = 1
          /\ IsCircularError(pass'.diagnostics[1])
          /\ UriA \in DOMAIN parsedDocCache'
          /\ Len(parsedDocCache'[UriA].includeErrors) = 1
          /\ IsCircularError(parsedDocCache'[UriA].includeErrors[1])
      ]_vars

\* A resolved first: the cycle is found on re-entering A from B
C2_Witness ==
    /\ MutualInclude
    /\ pass.pc = "loop" /\ pass.i = 0 /\ pass.uri = UriA
    /\ DOMAIN parsedDocCache = {UriA, UriB}
    /\ Len(pass.diagnostics) = 1
    /\ IsCircularError(pass.diagnostics[1])
    /\ pass.diagnostics[1].subject = UriA

(***************************************************************************)
(* SpecTokens: documents whose lines carry trailing comments.              *)
(***************************************************************************)
\* a DB line with a trailing comment: DB <a> "<str>"  ; <comment>
DbLine(a, str, comment) == "DB " \o a \o " \"" \o str \o "\"  ; " \o comment

DbAddrs == {"$200", "$[RBP-4]"}
DbStrings == {"Test String", "x"}
DbComments == {"DB with memory address"}

OutLine == "OUT 1 $[RSP+4] ; comment"

TokenMenu ==
    {OutLine, "MOV RAX 1;x y", "  ADD  RAX\tRBX ; a ; b", "HLT now ; stop here",
     DbLine("$200", "Test String", "DB with memory address"),
     DbLine("$[RBP-4]", "x", "DB with memory address")}

InitTokens == InitValidate(TokenMenu, {DefaultMaxNumberOfProblems}, NoDocuments)

SpecTokens == InitTokens /\ [][NextValidate]_vars

\* the line the loop handled last, once it has handled one
HandledLine == pass.pc \in {"loop", "done"} /\ pass.i >= 1
LastRaw == pass.lines[pass.i]
LastDiagnostics ==
    {pass.diagnostics[n] : n \in {m \in 1..Len(pass.diagnostics) :
                                     pass.diagnostics[m].line = pass.i - 1}}

\* the text before the first ';'
BeforeComment(raw) ==
    IF \E k \in 1..Len(raw) : Chr(raw, k) = ";"
    THEN SubSeq(raw, 1, (CHOOSE k \in 1..Len(raw) :
                            Chr(raw, k) = ";" /\ \A j \in 1..(k - 1) : Chr(raw, j) # ";") - 1)
    ELSE raw

\* the whitespace-separated tokens of s: its maximal runs of non-whitespace
\* characters, in order
TokenStarts(s) ==
    {k \in 1..Len(s) : Chr(s, k) \notin Whitespace
                        /\ (k = 1 \/ Chr(s, k - 1) \in Whitespace)}
TokenEnd(s, k) ==
    CHOOSE e \in k..Len(s) :
        /\ \A j \in k..e : Chr(s, j) \notin Whitespace
        /\ e = Len(s) \/ Chr(s, e + 1) \in Whitespace
WhitespaceTokens(s) ==
    [n \in 1..Cardinality(TokenStarts(s)) |->
        LET k == CHOOSE k \in TokenStarts(s) :
                     Cardinality({j \in TokenStarts(s) : j <= k}) = n
        IN SubSeq(s, k, TokenEnd(s, k))]

\* a line the loop does not skip whose mnemonic is not DB
IsNonDbInstructionLine(raw) ==
    /\ Trim(raw) # "" /\ ~StartsWith(Trim(raw), ";") /\ ~includeRegex(Trim(raw))
    /\ ToUpperCase(WhitespaceTokens(BeforeComment(raw))[1]) # "DB"

IsArityError(d) == d.message = "expects arguments, but got"

\* C7: for a non-DB instruction line the tokens the pass works on are the
\* whitespace-separated tokens of the text before the first ';', an
\* argument-count error counts only those, and "OUT 1 $[RSP+4] ; comment"
\* gives OUT, 1, $[RSP+4] and no argument-count error.
C7_TokensStopAtComment ==
    (HandledLine /\ IsNonDbInstructionLine(LastRaw)) =>
        /\ pass.tokens = WhitespaceTokens(BeforeComment(LastRaw))
        /\ \A d \in LastDiagnostics :
              IsArityError(d) => d.refLine = Len(WhitespaceTokens(BeforeComment(LastRaw))) - 1
        /\ LastRaw = OutLine =>
              /\ pass.tokens = <<"OUT", "1", "$[RSP+4]">>
              /\ \A d \in LastDiagnostics : ~IsArityError(d)

C7_Witness ==
    /\ HandledLine /\ pass.pc = "loop" /\ LastRaw = OutLine
    /\ Len(pass.tokens) = 3

\* C8: for DB <valid address> "<string>" followed by a ';' comment, the
\* string-literal token is the quoted string without the comment, the line
\* gets no 'Invalid DB string format' error, and the resolver records the
\* string's length as the size of the address.
C8_DbStringExcludesComment ==
    \A a \in DbAddrs, str \in DbStrings, comment \in DbComments :
        (HandledLine /\ LastRaw = DbLine(a, str, comment)) =>
            /\ pass.tokens = <<"DB", a, "\"" \o str \o "\"">>
            /\ \A d \in LastDiagnostics : d.message # "Invalid DB string format"
            /\ (MapHas(pass.allDbAddresses, a)
                  /\ MapGet(pass.allDbAddresses, a).line = pass.i - 1)
               => MapGet(pass.allDbAddresses, a).size = Len(str)

(***************************************************************************)
(* SpecSymbols: documents of label definitions and references.             *)
(***************************************************************************)
SymbolMenu == {"LBL MAIN", "LBL main", "LBL OTHER", "JMP #OTHER", "MOV RAX 1"}

InitSymbols == InitValidate(SymbolMenu, {1, DefaultMaxNumberOfProblems}, NoDocuments)

SpecSymbols == InitSymbols /\ [][NextValidate]_vars

IsUnusedWarning(d) ==
    /\ d.severity = "Warning"
    /\ d.message \in {"Label defined but never referenced",
                       "DB address defined but never referenced"}

\* the document defines the label entry, later the label OTHER, and no other
\* symbol, and does not reference OTHER
EntryThenOther(entry) ==
    /\ pass.pc = "done"
    /\ MapKeys(pass.allLabels) = <<entry, "OTHER">>
    /\ pass.allDbAddresses = <<>>
    /\ "OTHER" \notin pass.referencedLabels
    /\ Len(pass.diagnostics) <= pass.maxNumberOfProblems

OnlyOtherWarned ==
    LET unused == SelectSeq(pass.result, IsUnusedWarning)
    IN /\ Len(unused) = 1
       /\ unused[1].message = "Label defined but never referenced"
       /\ unused[1].subject = "OTHER"

\* C9 as stated: with LBL MAIN and a later unreferenced LBL OTHER the only
\* unused-symbol warning is the one for OTHER.
C9_MainNotWarned == EntryThenOther("MAIN") => OnlyOtherWarned

\* C9: with LBL main and a later unreferenced LBL OTHER, and a returned list
\* that is not truncated, the only unused-symbol warning is the one for OTHER.
C9_LowerCaseMainNotWarned == EntryThenOther("main") => OnlyOtherWarned

C9_Witness ==
    /\ EntryThenOther("main") /\ OnlyOtherWarned
    /\ "main" \notin pass.referencedLabels

(***************************************************************************)
(* SpecUnreach: documents of terminators, labels, plain instructions and   *)
(* lines the loop skips.                                                   *)
(***************************************************************************)
UnreachMenu ==
    {"HLT", "JMP #x", "EXIT 0", "LBL x", "MOV RAX 1", "", "; note",
     "#include \"missing.masm\""}

InitUnreach == InitValidate(UnreachMenu, {2, DefaultMaxNumberOfProblems}, NoDocuments)

SpecUnreach == InitUnreach /\ [][NextValidate]_vars

\* line j (0-based) is one the loop skips: blank, comment or include
IsSkippedLine(j) ==
    LET line == Trim(pass.lines[j + 1])
    IN line = "" \/ StartsWith(line, ";") \/ includeRegex(line)

\* the mnemonic of an instruction line, in upper case
Mnemonic(j) == ToUpperCase(WhitespaceTokens(BeforeComment(pass.lines[j + 1]))[1])

IsLabelLine(j) == ~IsSkippedLine(j) /\ Mnemonic(j) = "LBL"
IsTerminatorLine(j) == ~IsSkippedLine(j) /\ Mnemonic(j) \in {"HLT", "JMP", "EXIT"}

\* the terminator lines before line j with no LBL line in between
OpenTerminators(j) ==
    {t \in 0..(j - 1) : IsTerminatorLine(t) /\ \A k \in (t + 1)..(j - 1) : ~IsLabelLine(k)}

UnreachableWarnings(j) ==
    {n \in 1..Len(pass.diagnostics) :
        /\ pass.diagnostics[n].message = "Unreachable code detected after"
        /\ pass.diagnostics[n].line = j}

MaxOf(S) == CHOOSE x \in S : \A y \in S : y <= x

MaxOptions == 3

ClosestInputs == {"MOOV", "ZZZZZ", "mov", "MVO", "AD", "SUBB"}
ClosestPool == {"MOV", "ADD", "SUB", "mov", "MOD", "AND"}

OptionLists(pool, n) == {<<>>} \cup Texts(pool, n)

InitClosest ==
    /\ address = ""
    /\ valid = FALSE
    /\ addrPc = "ready"
    /\ documents = NoDocuments
    /\ files = NoDocuments
    /\ settings = defaultSettings
    /\ toolchainIncludePath = ""
    /\ parsedDocCache = EmptyCache
    /\ pass = IdlePass
    /\ completion = IdleCompletion
    /\ pending = {}
    /\ \E input \in ClosestInputs, options \in OptionLists(ClosestPool, MaxOptions),
          maxDistance \in 0..(DefaultMaxDistance + 1) :
          closest = [pc |-> "ready", input |-> input, options |-> options,
                     maxDistance |-> maxDistance]

\* one call findClosestMatch(input, options, maxDistance)
CallFindClosestMatch ==
    /\ closest.pc = "ready"
    /\ closest' = [pc |-> "returned", input |-> closest.input,
                   options |-> closest.options, maxDistance |-> closest.maxDistance,
                   result |-> findClosestMatch(closest.input, closest.options,
                                               closest.maxDistance)]
    /\ UNCHANGED <<completion, pending, address, valid, addrPc, documents, files, settings,
                   toolchainIncludePath, parsedDocCache, pass>>

NextClosest == CallFindClosestMatch

SpecClosest == InitClosest /\ [][NextClosest]_vars

\* the Levenshtein distance by its recurrence
RECURSIVE EditDistance(_, _)
EditDistance(a, b) ==
    IF Len(a) = 0 THEN Len(b)
    ELSE IF Len(b) = 0 THEN Len(a)
    ELSE IF Chr(a, 1) = Chr(b, 1) THEN EditDistance(SubSeq(a, 2, Len(a)), SubSeq(b, 2, Len(b)))
    ELSE 1 + Min(EditDistance(SubSeq(a, 2, Len(a)), b),
                 Min(EditDistance(a, SubSeq(b, 2, Len(b))),
                     EditDistance(SubSeq(a, 2, Len(a)), SubSeq(b, 2, Len(b)))))

\* the distance of option k of the call from its input, letter case aside
OptionDistance(k) ==
    EditDistance(ToUpperCase(closest.input), ToUpperCase(closest.options[k]))

\* the options within maxDistance
Qualifying ==
    {k \in 1..Len(closest.options) : OptionDistance(k) <= closest.maxDistance}

\* C11: findClosestMatch compares without regard to letter case; a returned
\* candidate is the first, in iteration order, of the candidates at the least
\* distance from the input; null is returned exactly when no candidate is
\* within maxDistance; ("MOOV", MOV ADD SUB, 2) gives MOV and
\* ("ZZZZZ", MOV, 2) gives null.
C11_ClosestIsFirstMinimum ==
    closest.pc = "returned" =>
        /\ closest.result.found <=> Qualifying # {}
        /\ closest.result.found =>
              \E k \in Qualifying :
                  /\ closest.result.match = closest.options[k]
                  /\ \A j \in 1..Len(closest.options) : OptionDistance(k) <= OptionDistance(j)
                  /\ \A j \in 1..(k - 1) : OptionDistance(j) > OptionDistance(k)
        /\ (closest.input = "MOOV" /\ closest.options = <<"MOV", "ADD", "SUB">>
              /\ closest.maxDistance = 2)
           => (closest.result.found /\ closest.result.match = "MOV")
        /\ (closest.input = "ZZZZZ" /\ closest.options = <<"MOV">>
              /\ closest.maxDistance = 2)
           => ~closest.result.found

\* two candidates at the same least distance, differing from the input in
\* letter case only: the first is returned
C11_Witness ==
    /\ closest.pc = "returned"
    /\ closest.input = "mov" /\ closest.options = <<"ADD", "MOV", "mov">>
    /\ closest.result.found /\ closest.result.match = "MOV"

\* C12 as stated: a returned candidate is at a distance strictly less than
\* maxDistance.
C12_StrictlyWithinMaxDistance ==
    (closest.pc = "returned" /\ closest.result.found) =>
        \A k \in 1..Len(closest.options) :
            closest.options[k] = closest.result.match
            => OptionDistance(k) < closest.maxDistance

\* C12: a returned candidate is at a distance of at most maxDistance, and a
\* candidate at exactly maxDistance is returned when none is closer.
C12_WithinMaxDistanceInclusive ==
    closest.pc = "returned" =>
        /\ closest.result.found =>
              \A k \in 1..Len(closest.options) :
                  closest.options[k] = closest.result.match
                  => OptionDistance(k) <= closest.maxDistance
        /\ (\E k \in 1..Len(closest.options) : OptionDistance(k) = closest.maxDistance)
           => closest.result.found

\* with the default maxDistance a candidate at distance 2 is returned
C12_Witness ==
    /\ closest.pc = "returned"
    /\ closest.maxDistance = DefaultMaxDistance
    /\ closest.input = "MVO" /\ closest.options = <<"MOV">>
    /\ closest.result.found /\ closest.result.match = "MOV"
    /\ OptionDistance(1) = 2

(***************************************************************************)
(* SpecSearch: document A includes lib.masm, which may exist in the        *)
(* configured include directory, in the toolchain descriptor's include     *)
(* directory and in A's own directory; each copy defines the label here.   *)
(***************************************************************************)
LibName == "lib.masm"
LibInclude == "#include \"lib.masm\""
ConfigDir == "inc"
ToolchainDir == "tc"
LibPlaces == {"inc/lib.masm", "tc/lib.masm", "src/lib.masm"}

SearchMenu == {LibInclude, "LBL a", "MOV RAX 1"}

InitSearch ==
    /\ address = ""
    /\ valid = FALSE
    /\ addrPc = "ready"
    /\ completion = IdleCompletion
    /\ pending = {}
    /\ closest = IdleClosest
    /\ \E text \in Texts(SearchMenu, MaxLines) : \E places \in SUBSET LibPlaces :
          /\ documents = [u \in {UriA} |-> text]
          /\ files = [u \in {UriA} \cup places |-> IF u = UriA THEN text ELSE <<"LBL here">>]
    /\ \E dir \in {"", ConfigDir} :
          settings = [maxNumberOfProblems |-> DefaultMaxNumberOfProblems, includePath |-> dir]
    /\ toolchainIncludePath \in {"", ToolchainDir}
    /\ parsedDocCache = EmptyCache
    /\ pass = IdlePass

SpecSearch == InitSearch /\ [][NextValidate]_vars

\* the include directory in force: the toolchain descriptor's, else the
\* configured one, else none ("")
SearchDir == IF toolchainIncludePath # "" THEN toolchainIncludePath ELSE settings.includePath

\* where lib.masm is to be found: "" when nowhere
ExpectedLib ==
    IF SearchDir # "" /\ (SearchDir \o "/" \o LibName) \in DOMAIN files
    THEN SearchDir \o "/" \o LibName
    ELSE IF ("src/" \o LibName) \in DOMAIN files THEN "src/" \o LibName
    ELSE ""

IncludesLib ==
    /\ pass.pc \in {"loop", "done"}
    /\ \E n \in 1..Len(pass.lines) : pass.lines[n] = LibInclude

LibNotFound(d) == d.message = "Include file not found" /\ d.subject = LibName

\* C13: the include resolves to the copy in the include directory in force
\* (the toolchain descriptor's if there is one, else the configured one) when
\* that copy exists, else to the copy beside the including file when that
\* exists, else to nothing.
C13_IncludeSearchOrder ==
    IncludesLib =>
        IF ExpectedLib # ""
        THEN /\ MapHas(pass.allLabels, "here")
             /\ MapGet(pass.allLabels, "here").uri = ExpectedLib
             /\ \A n \in 1..Len(pass.diagnostics) : ~LibNotFound(pass.diagnostics[n])
        ELSE /\ ~MapHas(pass.allLabels, "here")
             /\ \E n \in 1..Len(pass.diagnostics) : LibNotFound(pass.diagnostics[n])

\* all three copies exist and both directories are set: the toolchain's wins
C13_Witness ==
    /\ IncludesLib
    /\ LibPlaces \subseteq DOMAIN files
    /\ settings.includePath = ConfigDir /\ toolchainIncludePath = ToolchainDir
    /\ MapHas(pass.allLabels, "here")
    /\ MapGet(pass.allLabels, "here").uri = "tc/lib.masm"

(***************************************************************************)
(* SpecMissing: documents that include a file found nowhere, among label   *)
(* and data definitions and an include that resolves.                      *)
(***************************************************************************)
MissingInclude == "#include \"missing.masm\""

MissingMenu == {MissingInclude, "LBL after", "DB $5 \"x\"", "#include \"B.masm\"", "LBL other"}

MissingDisk == [u \in {UriB} |-> <<"LBL helper">>]

InitMissing == InitValidate(MissingMenu, {DefaultMaxNumberOfProblems}, MissingDisk)

SpecMissing == InitMissing /\ [][NextValidate]_vars

\* the table and the include errors the resolver returned for document A
ResolvedA == parsedDocCache[UriA]

\* the include errors reported for line j (0-based) of document A
MissingErrorsAt(j) ==
    {n \in 1..Len(ResolvedA.includeErrors) :
        /\ ResolvedA.includeErrors[n].line = j
        /\ ResolvedA.includeErrors[n].message = "Include file not found"}

\* C14: an include found in neither location adds exactly one Error, placed on
\* the file name of that include line, and the definitions and includes on
\* the lines after it are still in the returned table.
C14_MissingIncludeNotFatal ==
    UriA \in DOMAIN parsedDocCache =>
        \A j \in 0..(Len(documents[UriA]) - 1) :
            documents[UriA][j + 1] = MissingInclude =>
                /\ Cardinality(MissingErrorsAt(j)) = 1
                /\ \A n \in MissingErrorsAt(j) :
                      LET d == ResolvedA.includeErrors[n]
                      IN /\ d.severity = "Error"
                         /\ d.subject = "missing.masm"
                         /\ SubSeq(documents[UriA][j + 1], d.startChar + 1, d.endChar)
                              = "missing.masm"
                /\ \A k \in (j + 1)..(Len(documents[UriA]) - 1) :
                      LET later == documents[UriA][k + 1]
                      IN /\ later = "LBL after" => MapHas(ResolvedA.labels, "after")
                         /\ later = "LBL other" => MapHas(ResolvedA.labels, "other")
                         /\ later = "DB $5 \"x\"" => MapHas(ResolvedA.dbAddresses, "$5")
                         /\ later = "#include \"B.masm\""
                            => /\ MapHas(ResolvedA.labels, "helper")
                               /\ MapGet(ResolvedA.labels, "helper").uri = UriB

\* a missing include first, then a label, then an include that resolves
C14_Witness ==
    /\ UriA \in DOMAIN parsedDocCache
    /\ documents[UriA] = <<MissingInclude, "LBL after", "#include \"B.masm\"">>
    /\ Len(ResolvedA.includeErrors) = 1
    /\ MapKeys(ResolvedA.labels) = <<"after", "helper">>

(***************************************************************************)
(* SpecFirstWins: document A defines labels and data addresses that file B *)
(* defines too, and includes B at any position.                            *)
(***************************************************************************)
IncludeB == "#include \"B.masm\""

FirstWinsMenu == {"LBL x", "LBL y", "DB $5 \"a\"", "DB $5 \"longer\"", IncludeB}

FirstWinsDisk == [u \in {UriB} |-> <<"LBL y", "LBL x", "DB $5 \"bb\"", "LBL x">>]

InitFirstWins == InitValidate(FirstWinsMenu, {DefaultMaxNumberOfProblems}, FirstWinsDisk)

SpecFirstWins == InitFirstWins /\ [][NextValidate]_vars

\* the definition a line makes, as the entries <<kind, name, uri, line, size>>
\* it contributes; includes contribute nothing here
LineDefinition(uri, j, raw) ==
    LET t == WhitespaceTokens(raw) IN
    IF Len(t) >= 2 /\ t[1] = "LBL" THEN <<[kind |-> "label", key |-> t[2], uri |-> uri,
                                          line |-> j, size |-> 0]>>
    ELSE IF Len(t) >= 3 /\ t[1] = "DB" THEN <<[kind |-> "db", key |-> t[2], uri |-> uri,
                                               line |-> j, size |-> Len(t[3]) - 2]>>
    ELSE <<>>

\* the definitions of a text without includes, in textual order
RECURSIVE PlainDefinitions(_, _, _)
PlainDefinitions(uri, lines, j) ==
    IF j >= Len(lines) THEN <<>>
    ELSE LineDefinition(uri, j, lines[j + 1]) \o PlainDefinitions(uri, lines, j + 1)

\* the definitions of document A in textual order, an include of B standing
\* for the definitions of B
RECURSIVE TextualDefinitions(_)
TextualDefinitions(j) ==
    IF j >= Len(documents[UriA]) THEN <<>>
    ELSE (IF documents[UriA][j + 1] = IncludeB
          THEN PlainDefinitions(UriB, files[UriB], 0)
          ELSE LineDefinition(UriA, j, documents[UriA][j + 1]))
         \o TextualDefinitions(j + 1)

\* the first entry of defs for a kind and a key
FirstDefinition(defs, kind, key) ==
    defs[CHOOSE n \in 1..Len(defs) :
            /\ defs[n].kind = kind /\ defs[n].key = key
            /\ \A m \in 1..(n - 1) : ~(defs[m].kind = kind /\ defs[m].key = key)]

DefinedKeys(defs, kind) == {defs[n].key : n \in {m \in 1..Len(defs) : defs[m].kind = kind}}

\* C15: in the table the resolver returns, each label and each data address
\* maps to its first definition in textual order, an include standing for
\* the included file's definitions at the position of the directive.
C15_FirstDefinitionWins ==
    UriA \in DOMAIN parsedDocCache =>
        LET defs == TextualDefinitions(0) IN
        /\ {ResolvedA.labels[n].key : n \in 1..Len(ResolvedA.labels)} = DefinedKeys(defs, "label")
        /\ {ResolvedA.dbAddresses[n].key : n \in 1..Len(ResolvedA.dbAddresses)}
             = DefinedKeys(defs, "db")
        /\ \A key \in DefinedKeys(defs, "label") :
              /\ MapGet(ResolvedA.labels, key).uri = FirstDefinition(defs, "label", key).uri
              /\ MapGet(ResolvedA.labels, key).line = FirstDefinition(defs, "label", key).line
        /\ \A key \in DefinedKeys(defs, "db") :
              /\ MapGet(ResolvedA.dbAddresses, key).uri = FirstDefinition(defs, "db", key).uri
              /\ MapGet(ResolvedA.dbAddresses, key).line = FirstDefinition(defs, "db", key).line
              /\ MapGet(ResolvedA.dbAddresses, key).size = FirstDefinition(defs, "db", key).size

\* x defined in A before the include of B, which defines x and y; y defined
\* in A after it
C15_Witness ==
    /\ UriA \in DOMAIN parsedDocCache
    /\ documents[UriA] = <<"LBL x", IncludeB, "LBL y">>
    /\ MapGet(ResolvedA.labels, "x").uri = UriA
    /\ MapGet(ResolvedA.labels, "y").uri = UriB

\* the redefinition warnings on line j (0-based) of the validated document
RedefinitionWarnings(j) ==
    {n \in 1..Len(pass.diagnostics) :
        /\ pass.diagnostics[n].line = j
        /\ pass.diagnostics[n].severity = "Warning"
        /\ pass.diagnostics[n].message \in {"Label redefined in this file",
                                             "DB address redefined in this file"}}

\* line j defines something an earlier line of the same document defines
DefinedEarlier(j) ==
    \E k \in 0..(j - 1) :
        \E d \in {LineDefinition(pass.uri, j, pass.lines[j + 1])} :
        \E e \in {LineDefinition(pass.uri, k, pass.lines[k + 1])} :
            /\ Len(d) = 1 /\ Len(e) = 1
            /\ d[1].kind = e[1].kind /\ d[1].key = e[1].key

\* C16: among the lines the pass has handled, a well-formed LBL or DB line
\* gets a redefinition Warning when an earlier line of the same document
\* defines its name or address, and none when it is the first occurrence,
\* whatever the document includes.
C16_RedefinitionWarned ==
    pass.pc \in {"loop", "done"} =>
        \A j \in 0..(pass.i - 1) :
            Len(LineDefinition(pass.uri, j, pass.lines[j + 1])) = 1 =>
                IF DefinedEarlier(j) THEN Cardinality(RedefinitionWarnings(j)) = 1
                ELSE RedefinitionWarnings(j) = {}

(***************************************************************************)
(* SpecUnknown: documents with lines whose mnemonic is not an instruction, *)
(* with arguments that a known instruction would have checked.             *)
(***************************************************************************)
UnknownMenu ==
    {"MOOV RAX RBX RCX", "JUMP #x $[", "qqqq $5", "LBL x", "DB $5 \"s\"", "hlt"}

InitUnknown == InitValidate(UnknownMenu, {DefaultMaxNumberOfProblems}, NoDocuments)

SpecUnknown == InitUnknown /\ [][NextValidate]_vars

\* the step handles a line that the loop does not skip
HandlesLine ==
    /\ pass.pc = "loop" /\ pass'.pc = "loop" /\ pass'.i = pass.i + 1
    /\ ~IsSkippedLine(pass.i)

\* the diagnostics the step adds
AddedDiagnostics == SubSeq(pass'.diagnostics, Len(pass.diagnostics) + 1, Len(pass'.diagnostics))

IsUnreachableWarning(d) ==
    d.severity = "Warning" /\ d.message = "Unreachable code detected after"

\* C17: a line whose mnemonic, letter case aside, is not in the instruction
\* table adds exactly one Error, for the mnemonic, with the findClosestMatch
\* suggestion as its data when there is one, and nothing else but the
\* unreachable-code Warning due to an earlier line; it adds nothing to the
\* referenced labels and addresses and leaves the unreachable flag as it
\* was.  A line whose mnemonic is in the table adds no such Error.
C17_UnknownInstructionOnly ==
    [][HandlesLine =>
        LET raw == pass.lines[pass.i + 1]
            mnemonic == WhitespaceTokens(BeforeComment(raw))[1]
            suggestion == findClosestMatch(mnemonic, knownInstructionsOrder,
                                           DefaultMaxDistance)
            added == AddedDiagnostics
            errors == SelectSeq(added, LAMBDA d : ~IsUnreachableWarning(d))
        IN IF ToUpperCase(mnemonic) \notin knownInstructions
           THEN /\ Len(errors) = 1
                /\ errors[1].severity = "Error"
                /\ errors[1].message = "Unknown instruction"
                /\ errors[1].line = pass.i
                /\ errors[1].subject = mnemonic
                /\ errors[1].data = (IF suggestion.found THEN suggestion.match ELSE "")
                /\ Len(added) = (IF pass.unreachable THEN 2 ELSE 1)
                /\ pass'.problems = pass.problems + Len(added)
                /\ pass'.referencedLabels = pass.referencedLabels
                /\ pass'.referencedDbAddresses = pass.referencedDbAddresses
                /\ pass'.unreachable = pass.unreachable
                /\ pass'.unreachableStartLine = pass.unreachableStartLine
                /\ pass'.unreachableStartInstr = pass.unreachableStartInstr
           ELSE \A n \in 1..Len(added) : added[n].message # "Unknown instruction"
      ]_vars

\* an unknown mnemonic with a label argument, handled after a terminator:
\* the suggestion is attached and the label stays unreferenced
C17_Witness ==
    /\ HandledLine /\ LastRaw = "JUMP #x $["
    /\ pass.unreachable
    /\ "x" \notin pass.referencedLabels
    /\ \E d \in LastDiagnostics : d.message = "Unknown instruction" /\ d.data = "JMP"

(***************************************************************************)
(* SpecLabels: documents with '#' arguments: defined, undefined, malformed,*)
(* on control-transfer and on other instructions, and a label that only an *)
(* included file defines.                                                  *)
(***************************************************************************)
LabelsMenu ==
    {"LBL loop", "JMP #lopp", "je #Loop #9x", "MOV RAX #nope", IncludeB, "CALL #far"}

LabelsDisk == [u \in {UriB} |-> <<"LBL far">>]

InitLabels == InitValidate(LabelsMenu, {DefaultMaxNumberOfProblems}, LabelsDisk)

SpecLabels == InitLabels /\ [][NextValidate]_vars

ControlTransfer == {"JMP", "JE", "JL", "CALL", "JNE", "JG", "JLE", "JGE"}

\* the closest name of the resolved label table, '#' in front, or "" if no
\* name is within the default distance
ClosestLabel(name) ==
    LET keys == MapKeys(pass.allLabels)
        d(k) == EditDistance(ToUpperCase(name), ToUpperCase(keys[k]))
        near == {k \in 1..Len(keys) : d(k) <= DefaultMaxDistance}
    IN IF near = {} THEN ""
       ELSE "#" \o keys[CHOOSE k \in near :
                            \A j \in near : d(k) < d(j) \/ (d(k) = d(j) /\ k <= j)]

\* the diagnostics among ds with this message about this argument
About(ds, message, arg) ==
    {n \in 1..Len(ds) : ds[n].message = message /\ ds[n].subject = arg}

\* C18: on a line with a known mnemonic, a '#' argument of label syntax gets
\* exactly one 'Undefined label' Error, carrying '#' and the closest label
\* of the table as suggestion when there is one, if the instruction is a
\* control-transfer instruction and the name is not in the resolved table,
\* and no such diagnostic otherwise; a '#' argument not of label syntax gets
\* an 'Invalid label format' Error instead.
C18_LabelReferenceChecked ==
    [][HandlesLine =>
        LET tokens == WhitespaceTokens(BeforeComment(pass.lines[pass.i + 1]))
            instruction == ToUpperCase(tokens[1])
            added == AddedDiagnostics
        IN instruction \in knownInstructions \ {"DB"} =>
           \A p \in 2..Len(tokens) :
              LET arg == tokens[p]
                  name == SubSeq(arg, 2, Len(arg))
                  times == Cardinality({q \in 2..Len(tokens) : tokens[q] = arg})
                  undefined == About(added, "Undefined label", arg)
                  invalid == About(added, "Invalid label format", arg)
              IN Chr(arg, 1) = "#" =>
                 IF ~labelRegex(arg)
                 THEN /\ Cardinality(invalid) = times
                      /\ \A n \in invalid : added[n].severity = "Error"
                      /\ undefined = {}
                 ELSE /\ invalid = {}
                      /\ IF instruction \in ControlTransfer
                            /\ ~MapHas(pass.allLabels, name)
                         THEN /\ Cardinality(undefined) = times
                              /\ \A n \in undefined :
                                    /\ added[n].severity = "Error"
                                    /\ added[n].data = ClosestLabel(name)
                         ELSE undefined = {}
      ]_vars

\* a jump to a misspelt label is reported once, with the label defined on
\* the line before it as the suggestion
C18_Witness ==
    /\ HandledLine /\ pass.i = 2
    /\ pass.lines[1] = "LBL loop" /\ LastRaw = "JMP #lopp"
    /\ \E d \in LastDiagnostics :
          d.message = "Undefined label" /\ d.subject = "#lopp" /\ d.data = "#loop"

(***************************************************************************)
(* SpecMni: documents of MNI lines: unknown and known functions, wrong and *)
(* right argument counts, arguments of the declared kind and of another.   *)
(***************************************************************************)
MniMenu ==
    {"MNI Bad.fn RAX", "MNI Math.sin RAX", "MNI Math.sin $5", "MNI Math.sin RAX RBX",
     "MNI Mem.copy $5 RAX", "MNI Mem.copy RAX $[", "MNI Sys.exit 5", "MNI Sys.exit RAX"}

InitMni == InitValidate(MniMenu, {DefaultMaxNumberOfProblems}, NoDocuments)

SpecMni == InitMni /\ [][NextValidate]_vars

\* the token is an operand of the kind the tag names
MatchesKind(tag, token) ==
    CASE tag = "register" -> token \in knownRegisters
      [] tag = "memory" -> isValidMemoryAddress(token)
      [] tag = "immediate" -> immediateValueRegex(token)
      [] OTHER -> FALSE

\* what the checks of an MNI line must add, given which tags are checked
MniLineChecked(tags) ==
    HandlesLine =>
        LET tokens == WhitespaceTokens(BeforeComment(pass.lines[pass.i + 1]))
            added == AddedDiagnostics
            unknown == {n \in 1..Len(added) : added[n].message = "Unknown MNI function"}
            count == {n \in 1..Len(added) : added[n].message = "MNI expects arguments, got"}
            kind == {n \in 1..Len(added) : added[n].message = "MNI argument type"}
        IN (ToUpperCase(tokens[1]) = "MNI" /\ Len(tokens) >= 2) =>
             /\ \A n \in unknown \cup count \cup kind : added[n].severity = "Error"
             /\ IF tokens[2] \notin DOMAIN mniSpecMap
                THEN Cardinality(unknown) = 1 /\ count = {} /\ kind = {}
                ELSE LET signature == mniSpecMap[tokens[2]] IN
                     IF Len(tokens) - 2 # Len(signature)
                     THEN unknown = {} /\ Cardinality(count) = 1 /\ kind = {}
                     ELSE /\ unknown = {} /\ count = {}
                          /\ \A k \in 1..Len(signature) :
                                signature[k] \in tags =>
                                  Cardinality({n \in kind : added[n].refLine = k})
                                    = (IF MatchesKind(signature[k], tokens[k + 2])
                                       THEN 0 ELSE 1)

\* C19: an MNI line with a name absent from the signature table adds exactly
\* one 'Unknown MNI function' Error; with a known name and another number of
\* arguments than the signature, exactly one argument-count Error and no
\* kind Error; with the right number, one kind Error for each argument that
\* is not of the kind declared for its position and none for an argument
\* that is, whatever kind the signature declares.
C19_MniLineChecked == [][MniLineChecked({"register", "memory", "immediate"})]_vars

(***************************************************************************)
(* The notification handlers that invalidate parsedDocCache.  A handler    *)
(* runs while no validateTextDocument call is inside its line loop; the    *)
(* calls it starts run up to their await of the settings and stay pending  *)
(* until BeginValidate runs them.                                          *)
(***************************************************************************)
\* the cache left untouched by a content change
CacheKeptOnContentChange(cache, uri) == cache

\* parsedDocCache.delete(uri) (588)
CacheAfterContentChange(cache, uri) == [u \in DOMAIN cache \ {uri} |-> cache[u]]

\* documents.onDidChangeContent (586-607), for a document that was opened
\* or edited and now has the given text
ChangeContent(uri, text) ==
    /\ pass.pc \in {"idle", "done"}
    /\ documents' = [u \in DOMAIN documents \cup {uri} |->
                        IF u = uri THEN text ELSE documents[u]]
    /\ parsedDocCache' = CacheAfterContentChange(parsedDocCache, uri)
    /\ pending' = pending \cup {uri}
    /\ UNCHANGED <<completion, closest, address, valid, addrPc, files, settings, toolchainIncludePath,
                   pass>>

\* connection.onDidChangeWatchedFiles (610-632), for a file on disk that
\* now has the given text
ChangeWatchedFiles(path, text) ==
    /\ pass.pc \in {"idle", "done"}
    /\ files' = [files EXCEPT ![path] = text]
    /\ parsedDocCache' = EmptyCache
    /\ pending' = pending \cup DOMAIN documents
    /\ UNCHANGED <<completion, closest, address, valid, addrPc, documents, settings,
                   toolchainIncludePath, pass>>

\* connection.onDidChangeConfiguration (280-293); change is the microasm
\* section of the new configuration
ChangeConfiguration(change) ==
    /\ pass.pc \in {"idle", "done"}
    /\ settings' = change
    /\ parsedDocCache' = EmptyCache
    /\ UNCHANGED <<completion, pending, closest, address, valid, addrPc, documents, files,
                   toolchainIncludePath, pass>>

(***************************************************************************)
(* SpecCache: a session in which document A is opened and edited, file B   *)
(* changes on disk and the configuration changes, with the analyses these  *)
(* events start and the ones the client asks for.                          *)
(***************************************************************************)
TextsOfA == {<<"LBL a">>, <<"LBL b", "JMP #b">>, <<IncludeB, "JMP #far">>}
TextsOfB == {<<"LBL far">>, <<"LBL away", "DB $5 \"s\"">>}
Configurations ==
    {defaultSettings, [maxNumberOfProblems |-> DefaultMaxNumberOfProblems, includePath |-> ConfigDir]}

InitCache ==
    /\ address = ""
    /\ valid = FALSE
    /\ addrPc = "ready"
    /\ closest = IdleClosest
    /\ completion = IdleCompletion
    /\ pending = {}
    /\ documents = NoDocuments
    /\ files = [u \in {UriA, UriB} |-> IF u = UriA THEN <<"LBL a">> ELSE <<"LBL far">>]
    /\ settings = defaultSettings
    /\ toolchainIncludePath = ""
    /\ parsedDocCache = EmptyCache
    /\ pass = IdlePass

NextCache ==
    \/ \E text \in TextsOfA : ChangeContent(UriA, text)
    \/ \E text \in TextsOfB : ChangeWatchedFiles(UriB, text)
    \/ \E change \in Configurations : ChangeConfiguration(change)
    \/ NextValidate

SpecCache == InitCache /\ [][NextCache]_vars

\* the table is the one the current texts define: each key maps to its
\* first definition in textual order
TableOfCurrentText(labels, dbAddresses) ==
    LET defs == TextualDefinitions(0) IN
    /\ {labels[n].key : n \in 1..Len(labels)} = DefinedKeys(defs, "label")
    /\ {dbAddresses[n].key : n \in 1..Len(dbAddresses)} = DefinedKeys(defs, "db")
    /\ \A key \in DefinedKeys(defs, "label") :
          /\ MapGet(labels, key).uri = FirstDefinition(defs, "label", key).uri
          /\ MapGet(labels, key).line = FirstDefinition(defs, "label", key).line
    /\ \A key \in DefinedKeys(defs, "db") :
          /\ MapGet(dbAddresses, key).uri = FirstDefinition(defs, "db", key).uri
          /\ MapGet(dbAddresses, key).line = FirstDefinition(defs, "db", key).line

\* C20: a step that changes the text of an open document d leaves the cache
\* without an entry for d and with every other entry as it was; a step that
\* changes a file on disk or the configuration leaves the cache empty; and
\* an analysis of d starts with the table that d's text at that moment
\* defines, never one of an earlier text.
C20_CacheInvalidated ==
    [][/\ \A d \in DOMAIN documents' :
            (d \notin DOMAIN documents \/ documents'[d] # documents[d]) =>
               /\ d \notin DOMAIN parsedDocCache'
               /\ \A u \in DOMAIN parsedDocCache \ {d} :
                     u \in DOMAIN parsedDocCache' /\ parsedDocCache'[u] = parsedDocCache[u]
               /\ DOMAIN parsedDocCache' \subseteq DOMAIN parsedDocCache
       /\ (files' # files \/ settings' # settings) => parsedDocCache' = EmptyCache
       /\ (pass'.pc = "loop" /\ pass.pc # "loop") =>
            /\ pass'.lines = documents[pass'.uri]
            /\ TableOfCurrentText(pass'.allLabels, pass'.allDbAddresses)
      ]_vars

\* the analysis of A runs on a text without the include that an earlier text
\* of A had: the entry of B has outlived the edit, and the table in use is
\* that of the new text
C20_Witness ==
    /\ pass.pc = "loop" /\ pass.uri = UriA
    /\ documents[UriA] = <<"LBL b", "JMP #b">>
    /\ UriB \in DOMAIN parsedDocCache
    /\ MapKeys(pass.allLabels) = <<"b">>

(***************************************************************************)
(* provideCompletion (completion.ts 9-148).                                *)
(***************************************************************************)
\* the characters of \w, '$' and '#'
IsWordChar(c) == IsLetterOrUnderscore(c) \/ c \in Digits \/ c = "$" \/ c = "#"

\* linePrefix.match(/[\w$#]+$/): the longest run of word characters that
\* ends the string, '' if there is none (26-27)
CurrentWord(linePrefix) ==
    LET starts == {k \in 1..Len(linePrefix) :
                      \A n \in k..Len(linePrefix) : IsWordChar(Chr(linePrefix, n))}
    IN IF starts = {} THEN ""
       ELSE SubSeq(linePrefix, CHOOSE k \in starts : \A j \in starts : k <= j,
                   Len(linePrefix))

\* lineTrimmed.split(/\s+/).length: one more than the runs of whitespace
SplitLength(s) ==
    1 + Cardinality({k \in 1..Len(s) : /\ Chr(s, k) \in Whitespace
                                        /\ (k = 1 \/ Chr(s, k - 1) \notin Whitespace)})

\* lineTrimmed.split(/\s+/)[0]: the text before the first whitespace
FirstPiece(s) ==
    IF \E k \in 1..Len(s) : Chr(s, k) \in Whitespace
    THEN SubSeq(s, 1, (CHOOSE k \in 1..Len(s) :
                          /\ Chr(s, k) \in Whitespace
                          /\ \A j \in 1..(k - 1) : Chr(s, j) \notin Whitespace) - 1)
    ELSE s

Includes(s, c) == \E k \in 1..Len(s) : Chr(s, k) = c

\* knownRegisters in the iteration order of the set (338-341)
knownRegistersOrder ==
    <<"RAX", "RBX", "RCX", "RDX", "RSI", "RDI", "RBP", "RSP", "RIP",
      "R0", "R1", "R2", "R3", "R4", "R5", "R6", "R7", "R8", "R9",
      "R10", "R11", "R12", "R13", "R14", "R15">>

\* the instructions that take '$' completions (84)
AddressInstructions ==
    {"OUT", "IN", "MOV", "CMP", "PUSH", "CALL", "MOVADDR", "MOVTO", "COPY", "FILL",
     "CMP_MEM", "DB"}

CompletionItem(label, kind) == [label |-> label, kind |-> kind]

\* the items for the options that start with the prefix, in option order
ItemsFor(options, prefix, lead, kind) ==
    LET matching == SelectSeq(options, LAMBDA o : StartsWith(o, prefix))
    IN [n \in 1..Len(matching) |-> CompletionItem(lead \o matching[n], kind)]

\* the body of provideCompletion from the line texts on (24-145); docInfo is
\* what getParsedDocInfo returned
CompletionItems(lineText, character, docInfo) ==
    LET linePrefix == Substring(lineText, 0, character)
        currentWord == CurrentWord(linePrefix)
        lineTrimmed == TrimStart(lineText)
        instruction == ToUpperCase(FirstPiece(lineTrimmed))
        instructions == ItemsFor(knownInstructionsOrder, ToUpperCase(currentWord), "",
                                 "Keyword")
    IN
    IF /\ SplitLength(lineTrimmed) <= 1 /\ ~Includes(lineTrimmed, " ")
       /\ ~StartsWith(currentWord, "$") /\ ~StartsWith(currentWord, "#")
    THEN instructions
    ELSE IF Includes(linePrefix, " ")
    THEN (IF ~StartsWith(currentWord, "#") /\ ~StartsWith(currentWord, "$")
          THEN ItemsFor(knownRegistersOrder, ToUpperCase(currentWord), "", "Variable")
          ELSE <<>>)
         \o (IF StartsWith(currentWord, "#")
                 /\ (instruction \in jumpInstructions \/ instruction = "CALL")
              THEN ItemsFor(MapKeys(docInfo.labels), SubstringFrom(currentWord, 1), "#",
                            "Reference")
              ELSE <<>>)
         \o (IF StartsWith(currentWord, "$") /\ instruction \in AddressInstructions
              THEN ItemsFor(MapKeys(docInfo.dbAddresses), currentWord, "", "Value")
              ELSE <<>>)
    ELSE instructions

\* what provideCompletion hands to getDocumentSettings and getParsedDocInfo
\* as the document (35-36): the uri property of the document manager, which
\* has none
UriOfDocumentManager == "undefined"

\* connection.onCompletion (876-889): provideCompletion for the request in
\* completion.  The resolver is asked for the document the manager's uri
\* names; reading that file fails, and either the failure is turned into an
\* empty table with an error, or it escapes and the request fails.
CallProvideCompletion ==
    /\ completion.pc = "ready"
    /\ pass.pc \in {"idle", "done"}
    /\ IF completion.uri \notin DOMAIN documents
       THEN /\ completion' = [completion EXCEPT !.pc = "returned", !.items = <<>>]
            /\ UNCHANGED parsedDocCache
       ELSE \/ LET parsed == getParsedDocInfo(UriOfDocumentManager, settings.includePath,
                                 parsedDocCache,
                                 [documents |-> documents, files |-> files])
               IN /\ parsedDocCache' = parsed.cache
                  /\ completion' =
                        [completion EXCEPT
                            !.pc = "returned",
                            !.items = CompletionItems(
                                          documents[completion.uri][completion.line + 1],
                                          completion.character, parsed.info)]
            \/ /\ completion' = [completion EXCEPT !.pc = "failed"]
               /\ UNCHANGED parsedDocCache
    /\ UNCHANGED <<pending, closest, address, valid, addrPc, documents, files, settings,
                   toolchainIncludePath, pass>>

(***************************************************************************)
(* SpecCompletion: one completion request at a cursor position of an open  *)
(* document A that defines labels and data addresses itself and through    *)
(* the include of B.                                                       *)
(***************************************************************************)
CompletionMenu == {"LBL loop", "JMP #l", "CALL #", "DB $5 \"s\"", "MOV RAX $", IncludeB}

CompletionDisk == [u \in {UriB} |-> <<"LBL far", "DB $7 \"t\"">>]

InitCompletion ==
    /\ address = ""
    /\ valid = FALSE
    /\ addrPc = "ready"
    /\ closest = IdleClosest
    /\ pending = {}
    /\ \E text \in Texts(CompletionMenu, MaxLines) :
          /\ documents = [u \in {UriA} |-> text]
          /\ files = [u \in {UriA, UriB} |-> IF u = UriA THEN text ELSE CompletionDisk[u]]
          /\ \/ \E line \in 0..(Len(text) - 1) :
                   completion = [pc |-> "ready", uri |-> UriA, line |-> line,
                                 character |-> Len(text[line + 1]), items |-> <<>>]
             \/ completion = [pc |-> "ready", uri |-> UriB, line |-> 0,
                              character |-> 0, items |-> <<>>]
    /\ settings = defaultSettings
    /\ toolchainIncludePath = ""
    /\ parsedDocCache = EmptyCache
    /\ pass = IdlePass

NextCompletion == CallProvideCompletion

SpecCompletion == InitCompletion /\ [][NextCompletion]_vars

\* the request of the call: the line of the cursor, its word and mnemonic
RequestLine == documents[completion.uri][completion.line + 1]
RequestWord == CurrentWord(SubSeq(RequestLine, 1, completion.character))
RequestMnemonic == ToUpperCase(WhitespaceTokens(RequestLine)[1])

ItemLabels == {completion.items[n].label : n \in 1..Len(completion.items)}

\* C21: for a cursor word that starts with '#' on a line of a jump
\* instruction or CALL, the call returns the items '#name' for the labels
\* of the requested document's resolved table (its own and its includes')
\* whose name starts with the typed prefix; for a word that starts with '$'
\* on a line of an instruction that takes addresses, the data addresses of
\* that table that start with the word.
C21_SymbolCompletions ==
    (completion.pc \in {"returned", "failed"} /\ completion.uri \in DOMAIN documents) =>
        LET defs == TextualDefinitions(0) IN
        /\ (StartsWith(RequestWord, "#") /\ RequestMnemonic \in ControlTransfer) =>
              /\ completion.pc = "returned"
              /\ ItemLabels = {"#" \o name : name \in
                                 {k \in DefinedKeys(defs, "label") :
                                     StartsWith(k, SubSeq(RequestWord, 2, Len(RequestWord)))}}
        /\ (StartsWith(RequestWord, "$") /\ RequestMnemonic \in AddressInstructions) =>
              /\ completion.pc = "returned"
              /\ ItemLabels = {k \in DefinedKeys(defs, "db") : StartsWith(k, RequestWord)}

(***************************************************************************)
(* SpecDiamond: B and C both include D, D includes nothing, and A has a    *)
(* text of includes of B, C and D.  All four are open, so that the cache   *)
(* may be filled by analyses of any of them, in any order, before or after *)
(* A is analysed.                                                          *)
(***************************************************************************)
UriC == "src/C.masm"
UriD == "src/D.masm"
IncludeC == "#include \"C.masm\""
IncludeD == "#include \"D.masm\""

DiamondMenu == {IncludeB, IncludeC, IncludeD, "LBL a"}

InitDiamond ==
    /\ address = ""
    /\ valid = FALSE
    /\ addrPc = "ready"
    /\ closest = IdleClosest
    /\ pending = {}
    /\ completion = IdleCompletion
    /\ \E text \in Texts(DiamondMenu, MaxLines) :
          documents = [u \in {UriA, UriB, UriC, UriD} |->
                          CASE u = UriA -> text
                            [] u = UriB -> <<IncludeD, "LBL b">>
                            [] u = UriC -> <<"LBL c", IncludeD>>
                            [] OTHER -> <<"LBL d">>]
    /\ files = documents
    /\ settings = defaultSettings
    /\ toolchainIncludePath = ""
    /\ parsedDocCache = EmptyCache
    /\ pass = IdlePass

SpecDiamond == InitDiamond /\ [][NextValidate]_vars

\* C22: where no document includes itself, directly or through others, no
\* resolve reports a circular include, whatever earlier resolves left in the
\* cache: neither the cached results nor the diagnostics of an analysis
\* hold such an error, also for a document reached along two paths.
C22_NoFalseCycle ==
    /\ \A u \in DOMAIN parsedDocCache :
          \A n \in 1..Len(parsedDocCache[u].includeErrors) :
              ~IsCircularError(parsedDocCache[u].includeErrors[n])
    /\ pass.pc \in {"loop", "done"} =>
          \A n \in 1..Len(pass.diagnostics) : ~IsCircularError(pass.diagnostics[n])

\* A, which includes B and then C, is analysed: D is reached through B and
\* through C, and the labels of all three are in the table
C22_Witness ==
    /\ pass.pc = "loop" /\ pass.uri = UriA
    /\ documents[UriA] = <<IncludeB, IncludeC>>
    /\ MapKeys(pass.allLabels) = <<"d", "b", "c">>
    /\ DOMAIN parsedDocCache = {UriA, UriB, UriC, UriD}

(***************************************************************************)
(* SpecRegisters: instruction lines with register arguments, in and out of *)
(* the known-register set.                                                 *)
(***************************************************************************)
RegistersMenu == {"MOV R16 1", "MOV R1 R99", "PUSH R16", "INC RAX", "ADD R15 R2"}

InitRegisters == InitValidate(RegistersMenu, {DefaultMaxNumberOfProblems}, NoDocuments)

SpecRegisters == InitRegisters /\ [][NextValidate]_vars

\* a register token: R and a number, or one of the named registers
IsRegisterToken(s) ==
    \/ s \in knownRegisters
    \/ Len(s) >= 2 /\ Chr(s, 1) = "R" /\ IsDecimal(SubSeq(s, 2, Len(s)))

\* C23: on a line with a known mnemonic, an argument that is a register
\* token and is not a known register (R16, say) gets an 'Unknown register'
\* Error on that argument.
C23_UnknownRegisterReported ==
    [][HandlesLine =>
        LET tokens == WhitespaceTokens(BeforeComment(pass.lines[pass.i + 1]))
            added == AddedDiagnostics
        IN ToUpperCase(tokens[1]) \in knownInstructions \ {"DB"} =>
           \A p \in 2..Len(tokens) :
              (IsRegisterToken(tokens[p]) /\ tokens[p] \notin knownRegisters) =>
                 \E n \in About(added, "Unknown register", tokens[p]) :
                     added[n].severity = "Error" /\ added[n].line = pass.i
      ]_vars

(***************************************************************************)
(* SpecRing: documents A, B and C, each with one label and at most one     *)
(* include, of any of the three: the include graphs of out-degree at most  *)
(* one, with self-includes, cycles of length two and three, and chains.    *)
(***************************************************************************)
IncludeA == "#include \"A.masm\""

RingUris == {UriA, UriB, UriC}
RingLabel(u) == CASE u = UriA -> "a" [] u = UriB -> "b" [] OTHER -> "c"
RingTexts(u) ==
    {<<"LBL " \o RingLabel(u)>>}
      \cup {<<"LBL " \o RingLabel(u), inc>> : inc \in {IncludeA, IncludeB, IncludeC}}

InitRing ==
    /\ address = ""
    /\ valid = FALSE
    /\ addrPc = "ready"
    /\ closest = IdleClosest
    /\ pending = {}
    /\ completion = IdleCompletion
    /\ \E ta \in RingTexts(UriA), tb \in RingTexts(UriB), tc \in RingTexts(UriC) :
          documents = [u \in RingUris |-> CASE u = UriA -> ta [] u = UriB -> tb [] OTHER -> tc]
    /\ files = documents
    /\ settings = defaultSettings
    /\ toolchainIncludePath = ""
    /\ parsedDocCache = EmptyCache
    /\ pass = IdlePass

SpecRing == InitRing /\ [][NextValidate]_vars

\* the document that u includes, "" if it includes none
RingNext(u) ==
    LET included == IncludedUris("src", documents[u])
    IN IF included = <<>> THEN "" ELSE included[1]

\* the documents entered when resolving from u with seen on the path, in
\* the order they are entered
RECURSIVE RingWalk(_, _)
RingWalk(u, seen) ==
    IF u = "" \/ u \in seen THEN <<>>
    ELSE <<u>> \o RingWalk(RingNext(u), seen \cup {u})

\* the walk from u comes back to a document on it
RingCloses(u) ==
    LET walk == RingWalk(u, {})
    IN RingNext(walk[Len(walk)]) # ""

\* C24: on every include graph, with self-includes and cycles of length two
\* and three among them, a resolve on an empty cache returns having entered
\* no document twice: the table has the label of each document on the
\* include path once, and the include errors are one circular-include error
\* if the path comes back to a document on it and none otherwise.
C24_CyclesTerminate ==
    [][(parsedDocCache = EmptyCache /\ pass.pc = "idle" /\ pass'.pc = "loop") =>
          LET walk == RingWalk(pass'.uri, {})
              labels == pass'.allLabels
              errors == pass'.diagnostics
          IN /\ Len(labels) = Len(walk)
             /\ \A n \in 1..Len(walk) : MapHas(labels, RingLabel(walk[n]))
             /\ Len(errors) = (IF RingCloses(pass'.uri) THEN 1 ELSE 0)
             /\ \A n \in 1..Len(errors) : IsCircularError(errors[n])
      ]_vars

\* A is resolved on the cycle A, B, C, A: all three labels and one error
C24_Witness ==
    /\ pass.pc = "loop" /\ pass.uri = UriA /\ pass.i = 0
    /\ RingNext(UriA) = UriB /\ RingNext(UriB) = UriC /\ RingNext(UriC) = UriA
    /\ Len(pass.allLabels) = 3
    /\ Len(pass.diagnostics) = 1 /\ IsCircularError(pass.diagnostics[1])

(***************************************************************************)
(* SpecStale: A and B are both open, A includes B; either is edited and    *)
(* analysed, in any order.                                                 *)
(***************************************************************************)
StaleTextsOfA == {<<IncludeB, "JMP #far">>, <<"LBL a", IncludeB>>}
StaleTextsOfB == {<<"LBL far">>, <<"LBL away", "DB $5 \"s\"">>, <<"LBL far", "LBL away">>}

InitStale ==
    /\ address = ""
    /\ valid = FALSE
    /\ addrPc = "ready"
    /\ closest = IdleClosest
    /\ pending = {}
    /\ completion = IdleCompletion
    /\ documents = [u \in {UriA, UriB} |->
                       IF u = UriA THEN <<IncludeB, "JMP #far">> ELSE <<"LBL far">>]
    /\ files = documents
    /\ settings = defaultSettings
    /\ toolchainIncludePath = ""
    /\ parsedDocCache = EmptyCache
    /\ pass = IdlePass

NextStale ==
    \/ \E text \in StaleTextsOfA : ChangeContent(UriA, text)
    \/ \E text \in StaleTextsOfB : ChangeContent(UriB, text)
    \/ NextValidate

SpecStale == InitStale /\ [][NextStale]_vars

\* the definitions of document A in textual order, an include of B standing
\* for the definitions of B's open text
RECURSIVE OpenDefinitions(_)
OpenDefinitions(j) ==
    IF j >= Len(documents[UriA]) THEN <<>>
    ELSE (IF documents[UriA][j + 1] = IncludeB
          THEN PlainDefinitions(UriB, documents[UriB], 0)
          ELSE LineDefinition(UriA, j, documents[UriA][j + 1]))
         \o OpenDefinitions(j + 1)

\* C25: whatever content changes and analyses came before, an analysis of A
\* starts with the table that the current texts of A and of the open
\* document B it includes define: the labels and data addresses of B's text
\* as it is now, not as it was when a table of A was cached.
C25_IncluderSeesEdit ==
    [][(pass'.pc = "loop" /\ pass.pc # "loop" /\ pass'.uri = UriA) =>
          LET defs == OpenDefinitions(0) IN
          /\ {pass'.allLabels[n].key : n \in 1..Len(pass'.allLabels)}
                = DefinedKeys(defs, "label")
          /\ {pass'.allDbAddresses[n].key : n \in 1..Len(pass'.allDbAddresses)}
                = DefinedKeys(defs, "db")
      ]_vars

\* C26: with the texts fixed, a resolve of a document gives the result it
\* gives on an empty cache, whatever resolves of other roots filled the
\* cache before: the labels of the documents on its include path, and one
\* circular-include error if the path closes; so with A and B including
\* each other, B resolved after A has the table of B resolved first.
C26_OrderIndependent ==
    [][(pass.pc \in {"idle", "done"} /\ pass'.pc = "loop") =>
          LET walk == RingWalk(pass'.uri, {})
          IN /\ {pass'.allLabels[n].key : n \in 1..Len(pass'.allLabels)}
                   = {RingLabel(walk[n]) : n \in 1..Len(walk)}
             /\ Len(pass'.diagnostics) = (IF RingCloses(pass'.uri) THEN 1 ELSE 0)
      ]_vars

\* the line of the analysed document with the given index defines the
\* symbol: an LBL line for a label, a DB line for a data address
DefinedOnLine(j, symbol) ==
    /\ j < Len(pass.lines)
    /\ LET tokens == WhitespaceTokens(BeforeComment(pass.lines[j + 1]))
       IN /\ Len(tokens) >= 2
          /\ ToUpperCase(tokens[1]) \in {"LBL", "DB"}
          /\ symbol \in {tokens[2], SubSeq(tokens[2], 2, Len(tokens[2]))}

\* the unused-symbol warnings of the finished analysis
UnusedWarnings ==
    {n \in 1..Len(pass.diagnostics) :
        pass.diagnostics[n].message \in {"Label defined but never referenced",
                                         "DB address defined but never referenced"}}

\* C27: every unused-symbol warning of an analysis is for a label or a data
\* address defined in the analysed document, on the line of that document
\* where it is defined; an unreferenced symbol of an included file gives
\* no warning in the includer.
C27_UnusedWarningsAreLocal ==
    pass.pc = "done" =>
       \A n \in UnusedWarnings :
          /\ pass.diagnostics[n].severity = "Warning"
          /\ DefinedOnLine(pass.diagnostics[n].line, pass.diagnostics[n].subject)

\* C28: among the lines the pass has handled, an LBL line that follows a
\* HLT, JMP or EXIT line gets no unreachable-code warning: the label that
\* ends the unreachable region is not itself reported.
C28_LabelLineNotWarned ==
    pass.pc \in {"loop", "done"} =>
        \A j \in 0..(pass.i - 1) :
            (IsLabelLine(j) /\ OpenTerminators(j) # {}) => UnreachableWarnings(j) = {}

(***************************************************************************)
(* Include errors of a transitively included file: document A, open, may   *)
(* include B; B, on disk, defines a label and then includes a file that    *)
(* exists nowhere.                                                         *)
(***************************************************************************)
TransitiveMenu == {IncludeB, "LBL a", MissingInclude, "JMP #helper"}

TransitiveDisk == [u \in {UriB} |-> <<"LBL helper", MissingInclude>>]

InitTransitive ==
    InitValidate(TransitiveMenu, {DefaultMaxNumberOfProblems}, TransitiveDisk)

SpecTransitive == InitTransitive /\ [][NextValidate]_vars

\* the include errors among the diagnostics returned by the finished analysis
ReturnedIncludeErrors ==
    {n \in 1..Len(pass.result) :
        pass.result[n].message \in {"Include file not found",
                                    "Circular include detected"}}

\* C29: every include error among the diagnostics returned for a document
\* has its range on a line of that document that holds an #include
\* directive, also when the failing include stands in a file the document
\* includes.
C29_IncludeErrorsOnIncludeLines ==
    pass.pc = "done" =>
       \A n \in ReturnedIncludeErrors :
          /\ pass.result[n].line < Len(pass.lines)
          /\ includeRegex(Trim(pass.lines[pass.result[n].line + 1]))

(***************************************************************************)
(* Include directives followed by a comment: document A, open, may include *)
(* B, on disk, with or without a trailing comment on the directive.        *)
(***************************************************************************)
IncludeBCommented == "#include \"B.masm\" ; library"

TrailingMenu == {IncludeBCommented, IncludeB, "LBL a", "JMP #far"}

TrailingDisk == [u \in {UriB} |-> <<"LBL far">>]

InitTrailing == InitValidate(TrailingMenu, {DefaultMaxNumberOfProblems}, TrailingDisk)

SpecTrailing == InitTrailing /\ [][NextValidate]_vars

\* line j (0-based) of the analysed document is an #include directive,
\* with or without a comment after it
IsIncludeDirective(j) == includeRegex(Trim(BeforeComment(pass.lines[j + 1])))

\* C30: an #include "file" line followed by a ';' comment is an include
\* line: the table the analysis works on holds the labels of the included
\* file, and the pass, once past the line, has put no diagnostic on it.
C30_CommentedIncludeIsInclude ==
    pass.pc \in {"loop", "done"} =>
        \A j \in 0..(Len(pass.lines) - 1) :
            IsIncludeDirective(j) =>
               /\ MapHas(pass.allLabels, "far")
               /\ j < pass.i =>
                     \A n \in 1..Len(pass.diagnostics) :
                        pass.diagnostics[n].line = j
                        => pass.diagnostics[n].message # "Unknown instruction"

====
